---- MODULE Spec2Model ----
(***************************************************************************)
(* A model of prod-scout: the native four-stage pipeline (native_scout),   *)
(* and the X/Twitter GraphQL client (x_scraper): credential pool, circuit  *)
(* breaker, retry loop and timeline paginator.                             *)
(*                                                                         *)
(* The module holds several specifications over one set of variables; each *)
(* specification drives one component and leaves the others at rest.       *)
(***************************************************************************)
EXTENDS Integers, Sequences, FiniteSets, TLC

(***************************************************************************)
(* Bounds of the model.                                                    *)
(***************************************************************************)
\* queue.Queue(maxsize=1000), scaled down so that a full queue is reached
QueueCap == 1
\* enrich_workers / organizer workers (config, fallback 5), scaled down
MaxWorkers == 2
\* posts the feeds of one batch yield, all sources together
MaxPosts == 2
\* credentials in the pool
NumAccounts == 2
\* the clock stops here
MaxTime == 3
MaxSweepTime == 1000
MaxPageDelay == 1
\* threads sharing the client, and the calls each makes
NumThreads == 2
MaxThreadOps == 2
\* largest Retry-After / cooldown_seconds, in seconds
MaxRetryAfter == 1
\* largest max_retries and circuit_breaker_threshold the client is built with
MaxRetries == 2
MaxThreshold == 3
\* circuit_breaker_cooldown the client is built with, in seconds
cb_cooldown == 2
\* logical calls (_request_with_retry) one client makes
MaxCalls == 2
\* get_next calls one credential serves when the pool is driven directly
MaxRequests == 1
\* tweets the timeline of the swept user holds
MaxIds == 2
\* largest limit get_user_tweets_all is called with
MaxLimit == 3
\* the per-page cap (20 in the source), scaled down so that both arms of
\* min(20, limit - len(all_tweets)) are taken
PageCap == 2
\* results the writer is given in one batch
MaxResults == 2
\* largest quality_score the LLM answers
MaxScore == 6
\* feeds of the general pool (above general_workers) and X feeds
NumGeneral == 6
NumX == 2
\* largest x_request_delay of the config, in seconds
MaxDelay == 2
\* recent posts one feed yields
MaxFeedPosts == 1
\* lines of an env file
MaxLines == 3
\* URLs the content of one post holds
MaxUrls == 1
\* the latest cooldown_until of a credential, counted from the clock values
\* it is taken near
MaxUntil == 2
\* characters of a retry-after value
MaxHeaderLen == 2
\* entries of the errors list of a GraphQL answer
MaxErrors == 1
\* entries of a TimelineAddEntries instruction
MaxEntries == 2

VARIABLES
    \* ---- native_scout pipeline ----
    runPc,            \* position of NativePipeline.run in RunOrder
    stopSent,         \* sentinels the running stop() call has put so far
    events,           \* the stage / queue operations run() has called, in order
    fetch_queue,      \* Q1: [items, unfinished]
    enrich_queue,     \* Q2
    organize_queue,   \* Q3
    qstat,            \* per queue: real items put, real items acknowledged, sentinels put
    nextId,           \* id of the next RawPost
    tasks,            \* FetcherStage futures: source -> [st, left]
    enrichers,        \* EnricherStage pool: workers blocked in get, items held, workers exited
    organizers,       \* OrganizerStage pool, likewise
    writer,           \* WriterStage thread and its counters
    fsLog             \* kinds of files written under output_dir, in order

VARIABLES
    \* ---- x_scraper AccountPool ----
    accounts,         \* AccountPool.accounts: index -> [is_dead, cooldown_until, request_count]
    current_index,    \* AccountPool._current_index
    now,              \* time.time(), in seconds
    pool_op,          \* the last pool call, what it returned, and whether no
                      \* credential has been marked so far

    \* ---- x_scraper XClient ----
    max_retries,      \* XClient.max_retries
    cb_threshold,     \* XClient._cb_threshold
    cb_failures,      \* XClient._cb_consecutive_failures
    cb_open_until,    \* XClient._cb_open_until (0 = closed)
    pc,               \* position of _request_with_retry
    attempt,          \* loop variable of _request_with_retry
    account,          \* the credential picked for the attempt
    deadline,         \* wait_for_available: deadline
    call_result,      \* what the last call returned: "data" or "empty"
    calls,            \* logical calls started so far
    call,             \* history of the current call and of the breaker

    \* ---- x_scraper XClient.get_user_tweets_all ----
    timeline,         \* the tweets X holds: id -> [created_at, is_retweet]
    limit,            \* argument limit
    since_date,       \* argument since_date
    include_retweets, \* argument include_retweets
    all_tweets,       \* the result list
    cursor,           \* the cursor of the next page request
    seen_tweet_ids,   \* ids already in all_tweets
    seen_cursors,     \* cursors already followed
    empty_add_pages,  \* consecutive pages that added nothing
    sweep_pc,         \* "loop": at the while test; "returned": after return
    page_log          \* the last page: request number, count asked for,
                      \* len(all_tweets) when asked, and the counters logged

VARIABLES
    \* ---- threads sharing one XClient and its AccountPool ----
    threads,          \* thread -> position in get_next / _record_failure and
                      \* its locals
    tally             \* what the threads' calls did: credentials returned,
                      \* slots consumed, failures recorded

VARIABLES
    \* ---- native_scout organize_single_post ----
    llm               \* post id -> where its LLM call stands: attempt, calls
                      \* made, seconds slept between them, the last reply

VARIABLES
    \* ---- native_scout EnricherStage, item by item ----
    q1,               \* Q1 (fetch_queue): [items, unfinished]
    fed,              \* the posts put on Q1 so far, in order
    q2_puts,          \* Q2 (enrich_queue): post id -> times the post was put
    q2_last,          \* Q2: the item put last
    enricher_pool,    \* the Enrich workers: blocked in get, items held, exited
    pills             \* sentinels EnricherStage.stop has put so far

VARIABLES
    \* ---- x_scraper AccountPool.from_env_file ----
    env_file,         \* the lines of the file at env_file_path
    env_pos,          \* the line the loop is at
    env_auth_token,   \* local auth_token
    env_ct0,          \* local ct0
    env_ret           \* running, the exception raised or the pool returned

VARIABLES
    \* ---- x_scraper XClient._make_request, one call ----
    mr_response,      \* what the HTTP layer gives: an exception or a response
    mr_result         \* what _make_request returns or raises

VARIABLES
    \* ---- x_scraper TweetParser.parse_timeline, one call ----
    pt_instructions,  \* the instructions of the response
    pt_result         \* what parse_timeline returns

VARIABLES
    \* ---- native_scout FetcherStage, task by task ----
    general,          \* tasks of general_pool, counted by what they are doing
    x_tasks,          \* tasks of restricted_pool, in submission order
    x_delay,          \* x_request_delay_min / x_request_delay_max
    since_x,          \* seconds since the last X feed request ended (capped)
    fq,               \* entries on fetch_queue
    fetch_joined      \* FetcherStage.join returned

VARIABLES
    \* ---- native_scout WriterStage, post by post ----
    feed,             \* the results the Organize stage can deliver
    domain_info_map,  \* WriterStage.domain_info_map: domain -> name, counters
    total_posts,      \* WriterStage.total_posts
    entity_stats,     \* WriterStage.entity_stats: entity directory -> count
    by_domain,        \* the files under <out>/By-Domain: [dir, name, link]
    by_entity,        \* the files under <out>/By-Entity
    results_seen,     \* results dequeued so far
    last_write,       \* the last result dequeued and what became of it
    manifest          \* latest_batch.json

pipeVars == <<runPc, stopSent, events, fetch_queue, enrich_queue, organize_queue,
              qstat, nextId, tasks, enrichers, organizers, writer, fsLog>>

poolVars == <<accounts, current_index, now, pool_op>>

clientVars == <<max_retries, cb_threshold, cb_failures, cb_open_until, pc,
                attempt, account, deadline, call_result, calls, call>>

sweepVars == <<timeline, limit, since_date, include_retweets, all_tweets,
               cursor, seen_tweet_ids, seen_cursors, empty_add_pages, sweep_pc,
               page_log>>

threadVars == <<threads, tally>>

llmVars == <<llm>>

enrichVars == <<q1, fed, q2_puts, q2_last, enricher_pool, pills>>

writeVars == <<feed, domain_info_map, total_posts, entity_stats, by_domain,
               by_entity, results_seen, last_write, manifest>>

fetchVars == <<general, x_tasks, x_delay, since_x, fq, fetch_joined>>

envVars == <<env_file, env_pos, env_auth_token, env_ct0, env_ret>>

requestVars == <<mr_response, mr_result>>

parseVars == <<pt_instructions, pt_result>>

\* the stages of native_scout modelled item by item
stageVars == <<enrichVars, writeVars, fetchVars, envVars, requestVars, parseVars>>

\* everything but the item-by-item stage models
nonStageVars == <<pipeVars, poolVars, clientVars, sweepVars, threadVars, llmVars>>

notEnrichVars == <<writeVars, fetchVars, envVars, requestVars, parseVars, nonStageVars>>

notWriteVars == <<enrichVars, fetchVars, envVars, requestVars, parseVars, nonStageVars>>

notFetchVars == <<enrichVars, writeVars, envVars, requestVars, parseVars, nonStageVars>>

notEnvVars == <<enrichVars, writeVars, fetchVars, requestVars, parseVars, nonStageVars>>

notRequestVars == <<enrichVars, writeVars, fetchVars, envVars, parseVars, nonStageVars>>

notParseVars == <<enrichVars, writeVars, fetchVars, envVars, requestVars, nonStageVars>>

nonPipeVars == <<poolVars, clientVars, sweepVars, threadVars, llmVars, stageVars>>

vars == <<pipeVars, poolVars, clientVars, sweepVars, threadVars, llmVars, stageVars>>

(***************************************************************************)
(* queue.Queue: put / get / task_done / join                               *)
(***************************************************************************)
\* the poison pill (None)
None == [id |-> 0, domain |-> "-"]

EmptyQueue == [items |-> <<>>, unfinished |-> 0]

QFull(q) == Len(q.items) >= QueueCap

\* Queue.put: appends and counts one unfinished task (blocks while full)
QPut(q, x) == [items |-> Append(q.items, x), unfinished |-> q.unfinished + 1]

\* Queue.get: removes the head (blocks while empty)
QGet(q) == [q EXCEPT !.items = Tail(q.items)]

\* Queue.task_done
QTaskDone(q) == [q EXCEPT !.unfinished = q.unfinished - 1]

\* Queue.join returns when every entry put has been acknowledged
JoinReturnsEmptyOnly(q) == q.items = <<>>

JoinReturns(q) == q.unfinished = 0

StatPut(name, x) ==
    IF x = None
    THEN [qstat EXCEPT ![name].sentinels = @ + 1]
    ELSE [qstat EXCEPT ![name].puts = @ + 1]

StatAck(name, x) ==
    IF x = None THEN qstat ELSE [qstat EXCEPT ![name].acks = @ + 1]

(***************************************************************************)
(* NativePipeline.run                                                      *)
(***************************************************************************)
RunOrderStopBeforeDrain ==
    << "writer.start", "organizer.start", "enricher.start", "fetcher.start",
       "fetcher.join", "enricher.stop", "fetch_queue.join",
       "enrich_queue.join", "organizer.stop", "organize_queue.join",
       "writer.stop" >>

\* the calls of run(), in program order
RunOrder ==
    << "writer.start", "organizer.start", "enricher.start", "fetcher.start",
       "fetcher.join", "fetch_queue.join", "enricher.stop",
       "enrich_queue.join", "organizer.stop", "organize_queue.join",
       "writer.stop" >>

RunDone == runPc > Len(RunOrder)

RunOp == IF RunDone THEN "return" ELSE RunOrder[runPc]

\* the call at runPc is entered when its first step is taken
Enter(op) == IF Len(events) >= runPc THEN events ELSE Append(events, op)

\* sources by fetch pool: general_pool (weixin / YouTube) and restricted_pool (X)
GeneralSources == {"w1"}
XSources == {"x1"}
Sources == GeneralSources \cup XSources

\* a worker pool: the threads are interchangeable, so the pool is the number of
\* workers blocked in get(), the items being processed (not yet put downstream),
\* the items put downstream and not yet acknowledged, and the workers that exited
NoWorkers == [waiting |-> 0, proc |-> {}, ack |-> {}, exited |-> 0]

\* ThreadPoolExecutor: max_workers submits of _worker_loop
StartedWorkers == [waiting |-> MaxWorkers, proc |-> {}, ack |-> {}, exited |-> 0]

Domains == {"d1", "d2"}

InitPipe ==
    /\ runPc = 1
    /\ stopSent = 0
    /\ events = <<>>
    /\ fetch_queue = EmptyQueue
    /\ enrich_queue = EmptyQueue
    /\ organize_queue = EmptyQueue
    /\ qstat = [n \in {"fetch", "enrich", "organize"} |->
                  [puts |-> 0, acks |-> 0, sentinels |-> 0]]
    /\ nextId = 1
    /\ tasks = [s \in Sources |-> [st |-> "new", left |-> 0]]
    /\ enrichers = NoWorkers
    /\ organizers = NoWorkers
    /\ writer = [st |-> "new", item |-> None, total_posts |-> 0, domains |-> {}]
    /\ fsLog = <<>>

\* WriterStage.start
WriterStart ==
    /\ RunOp = "writer.start"
    /\ writer' = [writer EXCEPT !.st = "get"]
    /\ events' = Enter("writer.start")
    /\ runPc' = runPc + 1
    /\ UNCHANGED <<stopSent, fetch_queue, enrich_queue, organize_queue, qstat,
                   nextId, tasks, enrichers, organizers, fsLog,
                   nonPipeVars>>

\* OrganizerStage.start
OrganizerStart ==
    /\ RunOp = "organizer.start"
    /\ organizers' = StartedWorkers
    /\ events' = Enter("organizer.start")
    /\ runPc' = runPc + 1
    /\ UNCHANGED <<stopSent, fetch_queue, enrich_queue, organize_queue, qstat,
                   nextId, tasks, enrichers, writer, fsLog,
                   nonPipeVars>>

\* EnricherStage.start
EnricherStart ==
    /\ RunOp = "enricher.start"
    /\ enrichers' = StartedWorkers
    /\ events' = Enter("enricher.start")
    /\ runPc' = runPc + 1
    /\ UNCHANGED <<stopSent, fetch_queue, enrich_queue, organize_queue, qstat,
                   nextId, tasks, organizers, writer, fsLog,
                   nonPipeVars>>

\* FetcherStage.start: one future per source
FetcherStart ==
    /\ RunOp = "fetcher.start"
    /\ tasks' = [s \in Sources |-> [st |-> "pending", left |-> 0]]
    /\ events' = Enter("fetcher.start")
    /\ runPc' = runPc + 1
    /\ UNCHANGED <<stopSent, fetch_queue, enrich_queue, organize_queue, qstat,
                   nextId, enrichers, organizers, writer, fsLog,
                   nonPipeVars>>

\* FetcherStage.join: every future completed, both pools shut down
FetcherJoin ==
    /\ RunOp = "fetcher.join"
    /\ \A s \in Sources : tasks[s].st = "done"
    /\ events' = Enter("fetcher.join")
    /\ runPc' = runPc + 1
    /\ UNCHANGED <<stopSent, fetch_queue, enrich_queue, organize_queue, qstat,
                   nextId, tasks, enrichers, organizers, writer, fsLog,
                   nonPipeVars>>

\* fetch_queue.join / enrich_queue.join / organize_queue.join
QueueJoin ==
    /\ \/ RunOp = "fetch_queue.join" /\ JoinReturns(fetch_queue)
       \/ RunOp = "enrich_queue.join" /\ JoinReturns(enrich_queue)
       \/ RunOp = "organize_queue.join" /\ JoinReturns(organize_queue)
    /\ events' = Enter(RunOp)
    /\ runPc' = runPc + 1
    /\ UNCHANGED <<stopSent, fetch_queue, enrich_queue, organize_queue, qstat,
                   nextId, tasks, enrichers, organizers, writer, fsLog,
                   nonPipeVars>>

\* EnricherStage.stop, first half: one put(None) per worker
EnricherStopPut ==
    /\ RunOp = "enricher.stop"
    /\ stopSent < MaxWorkers
    /\ ~QFull(fetch_queue)
    /\ fetch_queue' = QPut(fetch_queue, None)
    /\ qstat' = StatPut("fetch", None)
    /\ stopSent' = stopSent + 1
    /\ events' = Enter("enricher.stop")
    /\ UNCHANGED <<runPc, enrich_queue, organize_queue, nextId, tasks,
                   enrichers, organizers, writer, fsLog,
                   nonPipeVars>>

\* EnricherStage.stop, second half: pool.shutdown(wait=True)
EnricherStopWait ==
    /\ RunOp = "enricher.stop"
    /\ stopSent = MaxWorkers
    /\ enrichers.exited = MaxWorkers
    /\ stopSent' = 0
    /\ runPc' = runPc + 1
    /\ UNCHANGED <<events, fetch_queue, enrich_queue, organize_queue, qstat,
                   nextId, tasks, enrichers, organizers, writer, fsLog,
                   nonPipeVars>>

\* OrganizerStage.stop, first half
OrganizerStopPut ==
    /\ RunOp = "organizer.stop"
    /\ stopSent < MaxWorkers
    /\ ~QFull(enrich_queue)
    /\ enrich_queue' = QPut(enrich_queue, None)
    /\ qstat' = StatPut("enrich", None)
    /\ stopSent' = stopSent + 1
    /\ events' = Enter("organizer.stop")
    /\ UNCHANGED <<runPc, fetch_queue, organize_queue, nextId, tasks,
                   enrichers, organizers, writer, fsLog,
                   nonPipeVars>>

\* OrganizerStage.stop, second half
OrganizerStopWait ==
    /\ RunOp = "organizer.stop"
    /\ stopSent = MaxWorkers
    /\ organizers.exited = MaxWorkers
    /\ stopSent' = 0
    /\ runPc' = runPc + 1
    /\ UNCHANGED <<events, fetch_queue, enrich_queue, organize_queue, qstat,
                   nextId, tasks, enrichers, organizers, writer, fsLog,
                   nonPipeVars>>

\* WriterStage.stop, first half: put(None)
WriterStopPut ==
    /\ RunOp = "writer.stop"
    /\ stopSent = 0
    /\ ~QFull(organize_queue)
    /\ organize_queue' = QPut(organize_queue, None)
    /\ qstat' = StatPut("organize", None)
    /\ stopSent' = 1
    /\ events' = Enter("writer.stop")
    /\ UNCHANGED <<runPc, fetch_queue, enrich_queue, nextId, tasks,
                   enrichers, organizers, writer, fsLog,
                   nonPipeVars>>

\* WriterStage.stop, second half: thread.join()
WriterStopWait ==
    /\ RunOp = "writer.stop"
    /\ stopSent = 1
    /\ writer.st = "exit"
    /\ stopSent' = 0
    /\ runPc' = runPc + 1
    /\ UNCHANGED <<events, fetch_queue, enrich_queue, organize_queue, qstat,
                   nextId, tasks, enrichers, organizers, writer, fsLog,
                   nonPipeVars>>

(***************************************************************************)
(* FetcherStage tasks (_fetch_task / _fetch_x_task)                        *)
(***************************************************************************)
\* FetcherStage.general_workers and restricted_workers
general_workers == 5
restricted_workers == 1

PoolOf(s) == IF s \in XSources THEN XSources ELSE GeneralSources

PoolSize(s) == IF s \in XSources THEN restricted_workers ELSE general_workers

Running(S) == {s \in S : tasks[s].st = "running"}

RECURSIVE SumLeft(_)
SumLeft(S) == IF S = {} THEN 0
              ELSE LET s == CHOOSE x \in S : TRUE IN tasks[s].left + SumLeft(S \ {s})

\* posts already put on fetch_queue or still to be put by a running task
Allocated == (nextId - 1) + SumLeft(Sources)

\* a pool thread takes the task; _fetch_recent_posts returns n posts
\* (n = 0: timeout, HTTP error, malformed feed, nothing recent)
FetchTaskRun(s) ==
    /\ tasks[s].st = "pending"
    /\ Cardinality(Running(PoolOf(s))) < PoolSize(s)
    /\ \E n \in 0..(MaxPosts - Allocated) :
          tasks' = [tasks EXCEPT ![s] =
                      IF n = 0 THEN [st |-> "done", left |-> 0]
                      ELSE [st |-> "running", left |-> n]]
    /\ UNCHANGED <<runPc, stopSent, events, fetch_queue, enrich_queue,
                   organize_queue, qstat, nextId, enrichers, organizers,
                   writer, fsLog,
                   nonPipeVars>>

FetchTaskPutDropsWhenFull(s) ==
    /\ tasks[s].st = "running"
    /\ LET post == [id |-> nextId, domain |-> "-"] IN
          IF QFull(fetch_queue)
          THEN UNCHANGED <<fetch_queue, qstat>>
          ELSE /\ fetch_queue' = QPut(fetch_queue, post)
               /\ qstat' = StatPut("fetch", post)
    /\ nextId' = nextId + 1
    /\ tasks' = [tasks EXCEPT ![s] =
                   IF tasks[s].left = 1 THEN [st |-> "done", left |-> 0]
                   ELSE [st |-> "running", left |-> tasks[s].left - 1]]
    /\ UNCHANGED <<runPc, stopSent, events, enrich_queue, organize_queue,
                   enrichers, organizers, writer, fsLog,
                   nonPipeVars>>

\* for post in posts: self.fetch_queue.put(post)
FetchTaskPut(s) ==
    /\ tasks[s].st = "running"
    /\ ~QFull(fetch_queue)
    /\ LET post == [id |-> nextId, domain |-> "-"] IN
          /\ fetch_queue' = QPut(fetch_queue, post)
          /\ qstat' = StatPut("fetch", post)
    /\ nextId' = nextId + 1
    /\ tasks' = [tasks EXCEPT ![s] =
                   IF tasks[s].left = 1 THEN [st |-> "done", left |-> 0]
                   ELSE [st |-> "running", left |-> tasks[s].left - 1]]
    /\ UNCHANGED <<runPc, stopSent, events, enrich_queue, organize_queue,
                   enrichers, organizers, writer, fsLog,
                   nonPipeVars>>

(***************************************************************************)
(* EnricherStage._worker_loop                                              *)
(***************************************************************************)
\* item = self.fetch_queue.get(); a sentinel is acknowledged and ends the loop
EnrichGet ==
    /\ enrichers.waiting > 0
    /\ fetch_queue.items # <<>>
    /\ LET item == Head(fetch_queue.items) IN
          IF item = None
          THEN /\ fetch_queue' = QTaskDone(QGet(fetch_queue))
               /\ enrichers' = [enrichers EXCEPT !.waiting = @ - 1, !.exited = @ + 1]
          ELSE /\ fetch_queue' = QGet(fetch_queue)
               /\ enrichers' = [enrichers EXCEPT !.waiting = @ - 1,
                                                 !.proc = @ \cup {item}]
    /\ UNCHANGED <<runPc, stopSent, events, enrich_queue, organize_queue, qstat,
                   nextId, tasks, organizers, writer, fsLog,
                   nonPipeVars>>

\* self._process_item(item) (enrichment errors are swallowed inside it);
\* self.enrich_queue.put(item)
EnrichPut(item) ==
    /\ item \in enrichers.proc
    /\ ~QFull(enrich_queue)
    /\ enrich_queue' = QPut(enrich_queue, item)
    /\ qstat' = StatPut("enrich", item)
    /\ enrichers' = [enrichers EXCEPT !.proc = @ \ {item}, !.ack = @ \cup {item}]
    /\ UNCHANGED <<runPc, stopSent, events, fetch_queue, organize_queue,
                   nextId, tasks, organizers, writer, fsLog,
                   nonPipeVars>>

EnrichFailsWithoutTaskDone(item) ==
    /\ item \in enrichers.proc
    /\ enrichers' = [enrichers EXCEPT !.proc = @ \ {item}, !.waiting = @ + 1]
    /\ UNCHANGED <<runPc, stopSent, events, fetch_queue, enrich_queue,
                   organize_queue, qstat, nextId, tasks, organizers, writer, fsLog,
                   nonPipeVars>>

\* except Exception: the try body raised before the put (a post without
\* 'source_type', 'title' or 'link' at the log line); logged, nothing forwarded
EnrichFails(item) ==
    /\ item \in enrichers.proc
    /\ enrichers' = [enrichers EXCEPT !.proc = @ \ {item}, !.ack = @ \cup {item}]
    /\ UNCHANGED <<runPc, stopSent, events, fetch_queue, enrich_queue,
                   organize_queue, qstat, nextId, tasks, organizers, writer, fsLog,
                   nonPipeVars>>

\* finally: self.fetch_queue.task_done()
EnrichTaskDone(item) ==
    /\ item \in enrichers.ack
    /\ fetch_queue' = QTaskDone(fetch_queue)
    /\ qstat' = StatAck("fetch", item)
    /\ enrichers' = [enrichers EXCEPT !.ack = @ \ {item}, !.waiting = @ + 1]
    /\ UNCHANGED <<runPc, stopSent, events, enrich_queue, organize_queue,
                   nextId, tasks, organizers, writer, fsLog,
                   nonPipeVars>>

(***************************************************************************)
(* OrganizerStage._worker_loop                                             *)
(***************************************************************************)
OrganizeGet ==
    /\ organizers.waiting > 0
    /\ enrich_queue.items # <<>>
    /\ LET post == Head(enrich_queue.items) IN
          IF post = None
          THEN /\ enrich_queue' = QTaskDone(QGet(enrich_queue))
               /\ organizers' = [organizers EXCEPT !.waiting = @ - 1, !.exited = @ + 1]
          ELSE /\ enrich_queue' = QGet(enrich_queue)
               /\ organizers' = [organizers EXCEPT !.waiting = @ - 1,
                                                   !.proc = @ \cup {post}]
    /\ UNCHANGED <<runPc, stopSent, events, fetch_queue, organize_queue, qstat,
                   nextId, tasks, enrichers, writer, fsLog,
                   nonPipeVars>>

\* result = organize_single_post(...); a result is put on organize_queue
OrganizePut(post) ==
    /\ post \in organizers.proc
    /\ ~QFull(organize_queue)
    /\ \E d \in Domains :
          LET result == [id |-> post.id, domain |-> d] IN
             /\ organize_queue' = QPut(organize_queue, result)
             /\ qstat' = StatPut("organize", result)
    /\ organizers' = [organizers EXCEPT !.proc = @ \ {post}, !.ack = @ \cup {post}]
    /\ UNCHANGED <<runPc, stopSent, events, fetch_queue, enrich_queue,
                   nextId, tasks, enrichers, writer, fsLog,
                   nonPipeVars>>

OrganizeDropEndsWorker(post) ==
    /\ post \in organizers.proc
    /\ organizers' = [organizers EXCEPT !.proc = @ \ {post}, !.exited = @ + 1]
    /\ UNCHANGED <<runPc, stopSent, events, fetch_queue, enrich_queue,
                   organize_queue, qstat, nextId, tasks, enrichers, writer, fsLog,
                   nonPipeVars>>

\* organize_single_post returned None (skip, or every retry failed) or raised
OrganizeDrop(post) ==
    /\ post \in organizers.proc
    /\ organizers' = [organizers EXCEPT !.proc = @ \ {post}, !.ack = @ \cup {post}]
    /\ UNCHANGED <<runPc, stopSent, events, fetch_queue, enrich_queue,
                   organize_queue, qstat, nextId, tasks, enrichers, writer, fsLog,
                   nonPipeVars>>

\* finally: self.enrich_queue.task_done()
OrganizeTaskDone(post) ==
    /\ post \in organizers.ack
    /\ enrich_queue' = QTaskDone(enrich_queue)
    /\ qstat' = StatAck("enrich", post)
    /\ organizers' = [organizers EXCEPT !.ack = @ \ {post}, !.waiting = @ + 1]
    /\ UNCHANGED <<runPc, stopSent, events, fetch_queue, organize_queue,
                   nextId, tasks, enrichers, writer, fsLog,
                   nonPipeVars>>

(***************************************************************************)
(* WriterStage._worker_loop                                                *)
(***************************************************************************)
RECURSIVE Repeat(_, _)
Repeat(x, n) == IF n = 0 THEN <<>> ELSE <<x>> \o Repeat(x, n - 1)

FinalizeBatchManifestFirst(log, written) ==
    log \o <<"manifest">> \o Repeat("posts.json", Cardinality(written))

\* _finalize_batch: posts.json per domain (each write may fail and is logged),
\* then save_batch_manifest
FinalizeBatch(log, written) ==
    log \o Repeat("posts.json", Cardinality(written)) \o <<"manifest">>

\* result = self.organize_queue.get(); the sentinel finalizes the batch
WriterGet ==
    /\ writer.st = "get"
    /\ organize_queue.items # <<>>
    /\ LET result == Head(organize_queue.items) IN
          IF result = None
          THEN /\ \E written \in SUBSET writer.domains :
                     fsLog' = FinalizeBatch(fsLog, written)
               /\ organize_queue' = QTaskDone(QGet(organize_queue))
               /\ writer' = [writer EXCEPT !.st = "exit"]
          ELSE /\ organize_queue' = QGet(organize_queue)
               /\ writer' = [writer EXCEPT !.st = "proc", !.item = result]
               /\ fsLog' = fsLog
    /\ UNCHANGED <<runPc, stopSent, events, fetch_queue, enrich_queue, qstat,
                   nextId, tasks, enrichers, organizers,
                   nonPipeVars>>

\* self._write_post_file(result); self.total_posts += 1
WriterWrite ==
    /\ writer.st = "proc"
    /\ writer' = [writer EXCEPT !.st = "ack",
                                !.total_posts = @ + 1,
                                !.domains = @ \cup {writer.item.domain}]
    /\ fsLog' = Append(fsLog, "post")
    /\ UNCHANGED <<runPc, stopSent, events, fetch_queue, enrich_queue,
                   organize_queue, qstat, nextId, tasks, enrichers, organizers,
                   nonPipeVars>>

\* _write_post_file raised (I/O error): logged, total_posts not incremented;
\* the domain is registered when the error came after _get_domain_info
WriterWriteFails ==
    /\ writer.st = "proc"
    /\ \E registered \in BOOLEAN :
          writer' = [writer EXCEPT !.st = "ack",
                       !.domains = IF registered THEN @ \cup {writer.item.domain} ELSE @]
    /\ UNCHANGED <<runPc, stopSent, events, fetch_queue, enrich_queue,
                   organize_queue, qstat, nextId, tasks, enrichers, organizers, fsLog,
                   nonPipeVars>>

\* finally: self.organize_queue.task_done()
WriterTaskDone ==
    /\ writer.st = "ack"
    /\ organize_queue' = QTaskDone(organize_queue)
    /\ qstat' = StatAck("organize", writer.item)
    /\ writer' = [writer EXCEPT !.st = "get", !.item = None]
    /\ UNCHANGED <<runPc, stopSent, events, fetch_queue, enrich_queue,
                   nextId, tasks, enrichers, organizers, fsLog,
                   nonPipeVars>>

NextPipe ==
    \/ WriterStart
    \/ OrganizerStart
    \/ EnricherStart
    \/ FetcherStart
    \/ FetcherJoin
    \/ QueueJoin
    \/ EnricherStopPut
    \/ EnricherStopWait
    \/ OrganizerStopPut
    \/ OrganizerStopWait
    \/ WriterStopPut
    \/ WriterStopWait
    \/ \E s \in Sources : FetchTaskRun(s)
    \/ \E s \in Sources : FetchTaskPut(s)
    \/ EnrichGet
    \/ \E item \in enrichers.proc : EnrichPut(item)
    \/ \E item \in enrichers.proc : EnrichFails(item)
    \/ \E item \in enrichers.ack : EnrichTaskDone(item)
    \/ OrganizeGet
    \/ \E post \in organizers.proc : OrganizePut(post)
    \/ \E post \in organizers.proc : OrganizeDrop(post)
    \/ \E post \in organizers.ack : OrganizeTaskDone(post)
    \/ WriterGet
    \/ WriterWrite
    \/ WriterWriteFails
    \/ WriterTaskDone


(***************************************************************************)
(* organize_single_post: the LLM call with its retry loop                  *)
(***************************************************************************)
\* max_retries=3, retry_delay=3: the defaults, which _worker_loop does not
\* override
llm_max_retries == 3
retry_delay == 3

PostIds == 1..MaxPosts

\* what a chat completion comes back as: empty content, an exception (HTTP
\* failure, timeout), content that is not JSON, the object {"skip": true},
\* or an organized post
ReplyKinds == {"empty", "exception", "non_json", "skip", "json"}

NewLlm == [st |-> "new", attempt |-> 0, calls |-> 0, slept |-> 0,
           reply |-> "none"]

InitLlm == llm = [i \in PostIds |-> NewLlm]

\* llm_client.chat.completions.create(...) is issued for a post a worker holds
\* (the prompt template was loaded and formats)
LlmRequest(post) ==
    /\ post \in organizers.proc
    /\ llm[post.id].st = "new"
    /\ llm' = [llm EXCEPT ![post.id].st = "inflight", ![post.id].calls = @ + 1]
    /\ UNCHANGED <<pipeVars, poolVars, clientVars, sweepVars, threadVars,
                   stageVars>>

\* what organize_single_post does with a reply of the given kind at the given
\* attempt: empty content and an exception are retried while attempt <
\* max_retries and then end in None / a raise; content json.loads rejects
\* returns None; any parsed object is returned
LlmOutcome(kind, k) ==
    IF kind \in {"empty", "exception"}
    THEN IF k < llm_max_retries THEN "retry" ELSE "failed"
    ELSE IF kind = "non_json" THEN "failed"
    ELSE "result"

\* the completion returns or raises; a retry sleeps retry_delay first; the
\* locals of the loop are gone once the function has returned or raised
LlmReply(post, kind) ==
    /\ post \in organizers.proc
    /\ llm[post.id].st = "inflight"
    /\ LET o == LlmOutcome(kind, llm[post.id].attempt) IN
          llm' = [llm EXCEPT
                    ![post.id] =
                       IF o = "retry"
                       THEN [@ EXCEPT !.st = "new", !.attempt = @ + 1,
                                      !.slept = @ + retry_delay,
                                      !.reply = kind]
                       ELSE [NewLlm EXCEPT !.st = o, !.reply = kind]]
    /\ UNCHANGED <<pipeVars, poolVars, clientVars, sweepVars, threadVars,
                   stageVars>>

\* the pipeline with the LLM call of each post spelled out
NextOrganize ==
    \/ WriterStart
    \/ OrganizerStart
    \/ EnricherStart
    \/ FetcherStart
    \/ FetcherJoin
    \/ QueueJoin
    \/ EnricherStopPut
    \/ EnricherStopWait
    \/ OrganizerStopPut
    \/ OrganizerStopWait
    \/ WriterStopPut
    \/ WriterStopWait
    \/ \E s \in Sources : FetchTaskRun(s)
    \/ \E s \in Sources : FetchTaskPut(s)
    \/ EnrichGet
    \/ \E item \in enrichers.proc : EnrichPut(item)
    \/ \E item \in enrichers.proc : EnrichFails(item)
    \/ \E item \in enrichers.ack : EnrichTaskDone(item)
    \/ OrganizeGet
    \/ \E post \in organizers.proc : LlmRequest(post)
    \/ \E post \in organizers.proc, kind \in ReplyKinds : LlmReply(post, kind)
    \/ \E post \in organizers.proc :
          llm[post.id].st = "result" /\ OrganizePut(post)
    \/ \E post \in organizers.proc :
          llm[post.id].st = "failed" /\ OrganizeDrop(post)
    \/ \E post \in organizers.ack : OrganizeTaskDone(post)
    \/ WriterGet
    \/ WriterWrite
    \/ WriterWriteFails
    \/ WriterTaskDone

(***************************************************************************)
(* Properties of the pipeline                                              *)
(***************************************************************************)
QueueNames == {"fetch", "enrich", "organize"}

QueueOf(n) == CASE n = "fetch" -> fetch_queue
                [] n = "enrich" -> enrich_queue
                [] n = "organize" -> organize_queue

IsPrefix(a, b) == Len(a) <= Len(b) /\ \A i \in 1..Len(a) : a[i] = b[i]

Called(op) == \E i \in 1..Len(events) : events[i] = op

PoolStarted(pool) ==
    pool.waiting + Cardinality(pool.proc) + Cardinality(pool.ack) + pool.exited = MaxWorkers

ShutdownSequence ==
    << "writer.start", "organizer.start", "enricher.start", "fetcher.start",
       "fetcher.join", "fetch_queue.join", "enricher.stop",
       "enrich_queue.join", "organizer.stop", "organize_queue.join",
       "writer.stop" >>

\* C1: run() calls writer.start, organizer.start, enricher.start, fetcher.start,
\* fetcher.join, fetch_queue.join, enricher.stop, enrich_queue.join,
\* organizer.stop, organize_queue.join, writer.stop, exactly these and in this
\* order; every consumer stage runs before any fetch task exists, and a stage's
\* sentinels are put only after the join of its input queue has returned.
C1_RunSequence ==
    /\ IsPrefix(events, ShutdownSequence)
    /\ RunDone => events = ShutdownSequence
    /\ (\E s \in Sources : tasks[s].st # "new") =>
          /\ writer.st # "new"
          /\ PoolStarted(organizers)
          /\ PoolStarted(enrichers)
    /\ qstat["fetch"].sentinels > 0 => Called("fetch_queue.join")
    /\ qstat["enrich"].sentinels > 0 => Called("enrich_queue.join")
    /\ qstat["organize"].sentinels > 0 => Called("organize_queue.join")

\* run() has returned after a batch in which a post went through every queue
C1_Witness ==
    /\ RunDone
    /\ events = ShutdownSequence
    /\ qstat["organize"].puts > 0

HasSentinel(q) == \E i \in 1..Len(q.items) : q.items[i] = None

\* C2: once a sentinel has been put on a queue, every real item ever put on that
\* queue has been dequeued and acknowledged (so none is queued behind a sentinel
\* and none is put later), and a worker has exited only after a sentinel was put
\* on its input queue, hence with no real item of its stage queued or in process.
C2_NoTailItemLost ==
    /\ \A n \in QueueNames :
          qstat[n].sentinels > 0 =>
             /\ qstat[n].puts = qstat[n].acks
             /\ \A i \in 1..Len(QueueOf(n).items) : QueueOf(n).items[i] = None
    /\ qstat["fetch"].sentinels > 0 => enrichers.proc = {} /\ enrichers.ack = {}
    /\ qstat["enrich"].sentinels > 0 => organizers.proc = {} /\ organizers.ack = {}
    /\ qstat["organize"].sentinels > 0 => writer.st \in {"get", "exit"}
    /\ enrichers.exited > 0 => qstat["fetch"].sentinels > 0
    /\ organizers.exited > 0 => qstat["enrich"].sentinels > 0
    /\ writer.st = "exit" => qstat["organize"].sentinels > 0

\* the sentinels of the Organize stage are queued after real posts went through
\* Q1 and Q2, and an Enrich worker has already exited on its sentinel
C2_Witness ==
    /\ HasSentinel(enrich_queue)
    /\ qstat["enrich"].puts > 0
    /\ qstat["fetch"].puts = MaxPosts
    /\ enrichers.exited = MaxWorkers

CountOf(log, kind) == Cardinality({i \in 1..Len(log) : log[i] = kind})

\* C3: the manifest is written at most once, only by the Write worker when it
\* dequeues its sentinel, after every post of the batch was handled and after
\* the posts.json files; nothing is written after it; and when run() returns it
\* has been written exactly once, whatever number of posts reached the writer.
C3_ManifestOnceLast ==
    /\ CountOf(fsLog, "manifest") <= 1
    /\ CountOf(fsLog, "manifest") = 1 <=> writer.st = "exit"
    /\ CountOf(fsLog, "manifest") = 1 =>
          /\ fsLog[Len(fsLog)] = "manifest"
          /\ \A n \in QueueNames : qstat[n].puts = qstat[n].acks
    /\ RunDone => CountOf(fsLog, "manifest") = 1

\* a batch in which two posts were written, one posts.json, then the manifest
C3_Witness ==
    /\ RunDone
    /\ fsLog = <<"post", "post", "posts.json", "manifest">>
    /\ writer.total_posts = 2

\* a batch in which no post reached the writer: the manifest alone is written
C3_WitnessZeroPosts ==
    /\ RunDone
    /\ writer.total_posts = 0
    /\ qstat["organize"].puts = 0
    /\ fsLog = <<"manifest">>

\* real items waiting on a queue
RealItems(q) == Len(q.items) - CountOf(q.items, None)

\* sentinels taken off queue n so far
SentinelsTaken(n) == qstat[n].sentinels - CountOf(QueueOf(n).items, None)

\* items a pool's workers hold, processed or not, and not yet acknowledged
InHand(pool) == Cardinality(pool.proc) + Cardinality(pool.ack)

WriterInHand == IF writer.st \in {"proc", "ack"} THEN 1 ELSE 0

\* C20: an Enrich, Organize or Write worker exits only by dequeuing a
\* sentinel, also when items failed (the try body raised, the LLM call failed
\* for good, a file write failed): the workers that exited are as many as the
\* sentinels dequeued, every other worker is waiting or holds an item, and
\* every item put on a queue is queued, held by a worker or acknowledged
\* exactly once.
C20_OnlySentinelEndsWorker ==
    /\ enrichers.exited = SentinelsTaken("fetch")
    /\ organizers.exited = SentinelsTaken("enrich")
    /\ (IF writer.st = "exit" THEN 1 ELSE 0) = SentinelsTaken("organize")
    /\ Called("enricher.start") => PoolStarted(enrichers)
    /\ Called("organizer.start") => PoolStarted(organizers)
    /\ qstat["fetch"].puts - qstat["fetch"].acks
          = RealItems(fetch_queue) + InHand(enrichers)
    /\ qstat["enrich"].puts - qstat["enrich"].acks
          = RealItems(enrich_queue) + InHand(organizers)
    /\ qstat["organize"].puts - qstat["organize"].acks
          = RealItems(organize_queue) + WriterInHand
    /\ fetch_queue.unfinished = Len(fetch_queue.items) + InHand(enrichers)
    /\ enrich_queue.unfinished = Len(enrich_queue.items) + InHand(organizers)
    /\ organize_queue.unfinished = Len(organize_queue.items) + WriterInHand

\* a batch of two posts of which one failed in the Enrich stage and the other
\* in the Organize stage: both were acknowledged and every worker went on to
\* its sentinel
C20_Witness ==
    /\ RunDone
    /\ qstat["fetch"].puts = 2 /\ qstat["fetch"].acks = 2
    /\ qstat["enrich"].puts = 1 /\ qstat["enrich"].acks = 1
    /\ qstat["organize"].puts = 0
    /\ enrichers.exited = MaxWorkers
    /\ organizers.exited = MaxWorkers

\* a batch in which the write of one post failed and the writer went on to
\* write the other
C20_WitnessWriter ==
    /\ RunDone
    /\ qstat["organize"].puts = 2 /\ qstat["organize"].acks = 2
    /\ writer.total_posts = 1
    /\ writer.st = "exit"

\* entries put on queue n so far, sentinels included
PutsOn(n) == qstat[n].puts + qstat[n].sentinels

\* C28: Q1, Q2 and Q3 never hold more than their capacity, items and
\* sentinels together; a full queue changes only by a consumer's get, so a
\* producer's put waits; and nothing is dropped for lack of space: every put
\* that returns has appended its entry, and a fetch task or a stop() gives up
\* an entry only by appending it.
C28_BoundedQueues ==
    /\ [](\A n \in QueueNames : Len(QueueOf(n).items) <= QueueCap)
    /\ [][/\ \A n \in QueueNames :
               LET before == QueueOf(n).items
                   after == QueueOf(n)'.items
               IN /\ \/ after = before
                     \/ before # <<>> /\ after = Tail(before)
                     \/ /\ Len(before) < QueueCap
                        /\ Len(after) = Len(before) + 1
                        /\ SubSeq(after, 1, Len(before)) = before
                  /\ PutsOn(n)' = PutsOn(n)
                                    + (IF Len(after) > Len(before) THEN 1 ELSE 0)
          /\ (\E s \in Sources : tasks[s].st = "running" /\ tasks'[s] # tasks[s])
                => fetch_queue'.items
                      = Append(fetch_queue.items, [id |-> nextId, domain |-> "-"])
          /\ stopSent' > stopSent
                => \E n \in QueueNames :
                      QueueOf(n)'.items = Append(QueueOf(n).items, None)]_vars

\* Q1 is full while a fetch task still holds a post to put
C28_Witness ==
    /\ Len(fetch_queue.items) = QueueCap
    /\ \E s \in Sources : tasks[s].st = "running"

\* Q1 is full of sentinels while enricher.stop has sentinels left to put
C28_WitnessSentinel ==
    /\ Len(fetch_queue.items) = QueueCap
    /\ RunOp = "enricher.stop" /\ stopSent > 0 /\ stopSent < MaxWorkers

(***************************************************************************)
(* Properties of the Organize stage                                        *)
(***************************************************************************)
\* [llm] max_concurrency (default 10), scaled down with the workers
max_concurrency == 1

\* the post's result is on Q3 or in the writer's hands
Forwarded(i) ==
    \/ \E k \in 1..Len(organize_queue.items) : organize_queue.items[k].id = i
    \/ writer.item.id = i

\* posts whose LLM reply was an organized post
Organized == {i \in PostIds : llm[i].st = "result" /\ llm[i].reply = "json"}

\* C17: an item whose LLM reply is {"skip": true} is dropped by the Organize
\* stage: it is never put on Q3, no post file is written for it and
\* total_posts does not count it, so files and total_posts cover organized
\* posts only; the manifest is still written when run() returns.
C17_SkipDropped ==
    /\ \A i \in PostIds : llm[i].reply = "skip" => ~Forwarded(i)
    /\ writer.total_posts <= Cardinality(Organized)
    /\ CountOf(fsLog, "post") <= Cardinality(Organized)
    /\ RunDone => CountOf(fsLog, "manifest") = 1

\* C18: a reply that is empty, an exception or not JSON is retried after a
\* 3-second wait while fewer than 3 retries were made, and ends the item's
\* call otherwise; no item gets more than 4 calls; an item whose call failed
\* is not forwarded to Q3.
C18_RetriesAllFailureKinds ==
    [][\A i \in PostIds :
          /\ (/\ llm[i].st = "inflight"
              /\ llm'[i].st # "inflight"
              /\ llm'[i].reply \in {"empty", "exception", "non_json"}) =>
                IF llm[i].attempt < llm_max_retries
                THEN /\ llm'[i].st = "new"
                     /\ llm'[i].attempt = llm[i].attempt + 1
                     /\ llm'[i].slept = llm[i].slept + retry_delay
                ELSE llm'[i].st = "failed"
          /\ llm'[i].calls <= llm_max_retries + 1
          /\ llm'[i].st = "failed" => ~Forwarded(i)']_vars

\* requests a chat completion is in flight for
InFlight == {i \in PostIds : llm[i].st = "inflight"}

\* C19: at every instant at most max_concurrency chat-completion requests
\* are in flight, whatever the number of Organize workers.
C19_InFlightCapped == Cardinality(InFlight) <= max_concurrency

(***************************************************************************)
(* EnricherStage, item by item: _worker_loop, _process_item,              *)
(* _enrich_x_content, _enrich_youtube_content and                          *)
(* ContentFetcher.fetch_embedded_content                                   *)
(***************************************************************************)
SourceTypes == {"weixin", "X", "YouTube"}

\* what LinkExtractor.categorize makes of a URL
UrlKinds == {"blog", "video", "media"}

\* what video_fetcher.fetch / blog_fetcher.fetch does for one URL: returns an
\* EmbeddedContent with content, returns None (or empty content), or raises
FetchOutcomes == {"content", "nothing", "raises"}

\* a URL of the post's content: its kind, and what fetching it does (media
\* URLs are collected, never fetched)
Urls ==
    [kind : {"blog", "video"}, fetch : FetchOutcomes]
        \cup {[kind |-> "media", fetch |-> "nothing"]}

\* the URLs a post's content can hold, in the order they appear
Contents == UNION {[1..n -> Urls] : n \in 0..MaxUrls}

\* the dict _fetch_recent_posts builds (with_keys), or a dict without
\* 'source_type', 'title' or 'link' that a caller put on the queue
NewPost(i, t, with_keys) ==
    [id |-> i, keys |-> with_keys, source_type |-> t, found |-> <<>>,
     own |-> "nothing", extra_content |-> <<>>, extra_urls |-> <<>>]

\* self.fetch_queue.put(None)
PoisonPill == NewPost(0, "-", FALSE)

IsRawPost(item) == item # PoisonPill /\ item.keys

RECURSIVE Positions(_, _, _)
\* the positions of the URLs of one kind, in order of appearance
Positions(content, kind, i) ==
    IF i > Len(content) THEN <<>>
    ELSE (IF content[i].kind = kind THEN <<i>> ELSE <<>>)
             \o Positions(content, kind, i + 1)

\* LinkExtractor.categorize: (blog_links, video_links, media_urls)
Categorize(content) ==
    [blog  |-> Positions(content, "blog", 1),
     video |-> Positions(content, "video", 1),
     media |-> Positions(content, "media", 1)]

\* fetch_embedded_content: the videos, then the blogs; a fetch that raises or
\* returns None adds nothing; all_urls = blog_links + video_links + media_urls
FetchEmbeddedContent(content) ==
    IF content = <<>> THEN [embedded |-> <<>>, all_urls |-> <<>>]
    ELSE LET c == Categorize(content) IN
         [embedded |-> SelectSeq(c.video \o c.blog,
                                 LAMBDA p : content[p].fetch = "content"),
          all_urls |-> c.blog \o c.video \o c.media]

\* _enrich_x_content: the parts of the embedded contents, joined; any
\* exception (crash) gives "", []
EnrichXContent(content, crash) ==
    LET r == FetchEmbeddedContent(content) IN
       IF crash THEN [extra_content |-> <<>>, extra_urls |-> <<>>]
       ELSE [extra_content |-> r.embedded, extra_urls |-> r.all_urls]

\* _enrich_youtube_content: the transcript of the post's own link (position
\* 0), "" when there is none or the fetch raised
EnrichYoutubeContent(transcript) ==
    IF transcript = "content" THEN <<0>> ELSE <<>>

\* _process_item: only X and YouTube posts are enriched; found records the
\* URLs the content of an X post held, own what fetching a YouTube post's own
\* link did
ProcessItem(post, content, transcript, crash) ==
    IF post.source_type \notin {"X", "YouTube"}
    THEN post
    ELSE IF post.source_type = "X"
    THEN LET x == EnrichXContent(content, crash) IN
            [post EXCEPT !.found = content,
                         !.extra_content = x.extra_content,
                         !.extra_urls = x.extra_urls]
    ELSE [post EXCEPT !.own = transcript,
                      !.extra_content = EnrichYoutubeContent(transcript)]

\* what _process_item meets for the post: the URLs of its content and an
\* exception outside the per-URL handlers (X), the transcript of its own link
\* (YouTube); nothing is looked at for the other source types
ContentsOf(post) == IF post.source_type = "X" THEN Contents ELSE {<<>>}

TranscriptsOf(post) ==
    IF post.source_type = "YouTube" THEN FetchOutcomes ELSE {"nothing"}

CrashesOf(post) == IF post.source_type = "X" THEN BOOLEAN ELSE {FALSE}

InitEnrich ==
    /\ q1 = EmptyQueue
    /\ fed = <<>>
    /\ q2_puts = [i \in 1..MaxPosts |-> 0]
    /\ q2_last = PoisonPill
    /\ enricher_pool = StartedWorkers
    /\ pills = 0

\* a producer puts a post on Q1
Q1Put(t, with_keys) ==
    /\ pills = 0
    /\ Len(fed) < MaxPosts
    /\ ~QFull(q1)
    /\ LET post == NewPost(Len(fed) + 1, t, with_keys) IN
          /\ q1' = QPut(q1, post)
          /\ fed' = Append(fed, post)
    /\ UNCHANGED <<q2_puts, q2_last, enricher_pool, pills,
                   notEnrichVars>>

\* EnricherStage.stop, after fetch_queue.join(): one sentinel per worker
EnricherStops ==
    /\ pills < MaxWorkers
    /\ pills > 0 \/ JoinReturns(q1)
    /\ ~QFull(q1)
    /\ q1' = QPut(q1, PoisonPill)
    /\ pills' = pills + 1
    /\ UNCHANGED <<fed, q2_puts, q2_last, enricher_pool,
                   notEnrichVars>>

\* item = self.fetch_queue.get(); a sentinel is acknowledged and ends the loop
EnricherGets ==
    /\ enricher_pool.waiting > 0
    /\ q1.items # <<>>
    /\ LET item == Head(q1.items) IN
          IF item = PoisonPill
          THEN /\ q1' = QTaskDone(QGet(q1))
               /\ enricher_pool' = [enricher_pool EXCEPT !.waiting = @ - 1,
                                                         !.exited = @ + 1]
          ELSE /\ q1' = QGet(q1)
               /\ enricher_pool' = [enricher_pool EXCEPT !.waiting = @ - 1,
                                                         !.proc = @ \cup {item}]
    /\ UNCHANGED <<fed, q2_puts, q2_last, pills,
                   notEnrichVars>>

EnricherWorksDropsOnFailure(item) ==
    /\ item \in enricher_pool.proc
    /\ \E content \in ContentsOf(item), transcript \in TranscriptsOf(item),
          crash \in CrashesOf(item) :
          LET failed == \/ crash
                        \/ transcript = "raises"
                        \/ \E p \in 1..Len(content) : content[p].fetch = "raises"
          IN
          IF item.keys /\ ~failed
          THEN /\ q2_last' = ProcessItem(item, content, transcript, crash)
               /\ q2_puts' = [q2_puts EXCEPT ![item.id] = @ + 1]
          ELSE UNCHANGED <<q2_puts, q2_last>>
    /\ q1' = QTaskDone(q1)
    /\ enricher_pool' = [enricher_pool EXCEPT !.proc = @ \ {item},
                                              !.waiting = @ + 1]
    /\ UNCHANGED <<fed, pills,
                   notEnrichVars>>

\* the try body: the log line (KeyError for a dict without the keys),
\* self._process_item(item), self.enrich_queue.put(item); except Exception:
\* logged, nothing put; finally: self.fetch_queue.task_done()
EnricherWorks(item) ==
    /\ item \in enricher_pool.proc
    /\ IF item.keys
       THEN /\ \E content \in ContentsOf(item), transcript \in TranscriptsOf(item),
                  crash \in CrashesOf(item) :
                  q2_last' = ProcessItem(item, content, transcript, crash)
            /\ q2_puts' = [q2_puts EXCEPT ![item.id] = @ + 1]
       ELSE UNCHANGED <<q2_puts, q2_last>>
    /\ q1' = QTaskDone(q1)
    /\ enricher_pool' = [enricher_pool EXCEPT !.proc = @ \ {item},
                                              !.waiting = @ + 1]
    /\ UNCHANGED <<fed, pills,
                   notEnrichVars>>

NextEnrich ==
    \/ \E t \in SourceTypes : Q1Put(t, TRUE)
    \/ Q1Put("-", FALSE)
    \/ EnricherStops
    \/ EnricherGets
    \/ \E item \in enricher_pool.proc : EnricherWorks(item)

(***************************************************************************)
(* Properties of the Enrich stage                                          *)
(***************************************************************************)
\* the post is off Q1 and the worker that took it has handled it
Worked(i) ==
    /\ \A k \in 1..Len(q1.items) : q1.items[k].id # i
    /\ \A item \in enricher_pool.proc : item.id # i

\* no URL of the post gave content: every fetch raised or returned nothing
EveryFetchFailed(f) ==
    IF f.source_type = "YouTube" THEN f.own # "content"
    ELSE \A p \in 1..Len(f.found) : f.found[p].fetch # "content"

\* C21: every RawPost an Enrich worker dequeued from Q1 is put on Q2 exactly
\* once (none before the worker handled it), whether or not its enrichment
\* succeeded; the post put is the post dequeued; when every URL's enrichment
\* failed its extra_content is empty, and a post without embedded URLs (and
\* every post that is not enriched) has empty extras.
C21_ForwardedOnce ==
    /\ \A i \in 1..Len(fed) :
          IsRawPost(fed[i]) => q2_puts[i] = (IF Worked(i) THEN 1 ELSE 0)
    /\ q2_last # PoisonPill =>
          LET f == q2_last IN
             /\ f.id \in 1..Len(fed)
             /\ IsRawPost(fed[f.id])
             /\ [f EXCEPT !.found = <<>>, !.own = "nothing",
                          !.extra_content = <<>>, !.extra_urls = <<>>] = fed[f.id]
             /\ EveryFetchFailed(f) => f.extra_content = <<>>
             /\ (f.source_type = "X" /\ f.found = <<>>) =>
                   (f.extra_content = <<>> /\ f.extra_urls = <<>>)
             /\ f.source_type \notin {"X", "YouTube"} =>
                   (f.extra_content = <<>> /\ f.extra_urls = <<>>)

\* an X post whose only URL's fetch raised was put on Q2, once, with empty
\* extra_content and the URL recorded
C21_Witness ==
    /\ q2_last.source_type = "X"
    /\ q2_last.found # <<>>
    /\ \A p \in 1..Len(q2_last.found) : q2_last.found[p].fetch = "raises"
    /\ q2_last.extra_content = <<>>
    /\ q2_last.extra_urls # <<>>
    /\ q2_puts[q2_last.id] = 1

\* an X post without URLs was put on Q2 with empty extras
C21_WitnessNoUrls ==
    /\ q2_last.source_type = "X"
    /\ q2_last.found = <<>>
    /\ q2_last.extra_content = <<>> /\ q2_last.extra_urls = <<>>
    /\ q2_puts[q2_last.id] = 1

(***************************************************************************)
(* WriterStage, post by post: _write_post_file, _write_to_entity_view and  *)
(* _finalize_batch                                                         *)
(***************************************************************************)
\* a key the LLM's JSON object does not have, and the JSON value null
Absent == "<absent>"
Null == "<null>"

\* dict.get(key, default)
Get(v, default) == IF v = Absent THEN default ELSE v

\* what the LLM may answer for 'domain' and 'primary_entity'
LlmDomains == {"other", "AI/ML"}
LlmEntities == {Absent, Null, "Google", "C3.ai"}

\* 'quality_score' of the JSON object: an integer, null, or no such key
NoScore == [kind |-> "absent", v |-> 0]
NullScore == [kind |-> "null", v |-> 0]
LlmScores == [kind : {"int"}, v : 0..MaxScore] \cup {NoScore, NullScore}

\* source names of the batch (keys of the accounts sections of the config)
SourceNames == {"Sam-Altman", "src"}

\* links of the posts; the first two have the same first six hex digits of
\* their MD5 (6230d5), the third has 28ead2
Links == {"", "https://x.com/u/status/4578", "https://x.com/u/status/6236",
          "https://x.com/u/status/1"}

\* the dicts organize_single_post can return: the LLM's fields and the
\* fields copied from the post
Results ==
    [domain : LlmDomains, quality_score : LlmScores, primary_entity : LlmEntities,
     source_name : SourceNames, date : {"2026-02-07"}, link : Links]

\* [entity_mapping] of config.ini: canonical entity -> aliases
ConfigEntityMapping ==
    [e \in {"OpenAI", "Google"} |->
        IF e = "OpenAI" THEN <<"openai", "sam-altman">> ELSE <<"google">>]

\* _load_entity_mapping: the entity itself is added to its aliases
EntityMapping ==
    [e \in DOMAIN ConfigEntityMapping |->
        LET aliases == ConfigEntityMapping[e] IN
           IF \E i \in 1..Len(aliases) : aliases[i] = e THEN aliases
           ELSE Append(aliases, e)]

\* str.lower on the strings of the model
Lower(s) ==
    CASE s = "Sam-Altman" -> "sam-altman"
      [] s = "OpenAI" -> "openai"
      [] s = "Google" -> "google"
      [] OTHER -> s

\* _build_source_index and source_to_entity.get(key): the entity one of whose
\* aliases lower-cases to the key, None without one
SourceToEntity(key) ==
    LET hits == {e \in DOMAIN EntityMapping :
                    \E i \in 1..Len(EntityMapping[e]) : Lower(EntityMapping[e][i]) = key}
    IN IF hits = {} THEN Null ELSE CHOOSE e \in hits : TRUE

\* hashlib.md5(link.encode('utf-8')).hexdigest()[:6]
Md5Hex6(link) ==
    CASE link = "https://x.com/u/status/4578" -> "6230d5"
      [] link = "https://x.com/u/status/6236" -> "6230d5"
      [] link = "https://x.com/u/status/1" -> "28ead2"
      [] link = "" -> "d41d8c"

UniqueSuffix(link) == IF link # "" THEN Md5Hex6(link) ELSE "nolink"

\* f"{source_name}_{date_str}_{unique_suffix}.md"
FileName(result) == <<result.source_name, result.date, UniqueSuffix(result.link)>>

\* every character that is not alphanumeric, '-' or '_' becomes '_'
\* (_write_to_entity_view also keeps ' ')
SafeName(s) ==
    CASE s = "AI/ML" -> "AI_ML"
      [] s = "C3.ai" -> "C3_ai"
      [] OTHER -> s

GetQualityTierHighAboveFour(score) ==
    IF score > 4 THEN "high" ELSE IF score >= 2 THEN "pending" ELSE "excluded"

\* _get_quality_tier
GetQualityTier(score) ==
    IF score >= 4 THEN "high" ELSE IF score >= 2 THEN "pending" ELSE "excluded"

Tiers == {"high", "pending", "excluded"}

\* _get_domain_info: a domain seen for the first time gets its directory and
\* its counters
GetDomainInfo(map, domain) ==
    [x \in DOMAIN map \cup {domain} |->
        IF x \in DOMAIN map THEN map[x]
        ELSE [name |-> SafeName(domain), high |-> 0, pending |-> 0, excluded |-> 0]]

\* writing path: an existing file at the path is replaced
WriteFile(files, file) ==
    {f \in files : <<f.dir, f.name>> # <<file.dir, file.name>>} \cup {file}

\* what the file system does to the calls of one _write_post_file
IoOutcomes == {"ok", "open_fails", "entity_makedirs_fails", "copy_fails"}

\* lines 203-211: the source mapping first, then the LLM's primary_entity
ResolveEntity(result) ==
    LET by_source == IF result.source_name # ""
                     THEN SourceToEntity(Lower(result.source_name))
                     ELSE Null
    IN IF by_source = Null THEN Get(result.primary_entity, "Others")
       ELSE by_source

NoWrite ==
    [seen |-> FALSE, written |-> FALSE, counted |-> FALSE, copied |-> FALSE,
     domain |-> "-", score |-> 0, tier |-> "-", name |-> <<>>, link |-> "",
     entity |-> Null, source_name |-> "", primary_entity |-> Absent]

\* the results that differ in domain and quality_score only
TierResults ==
    {r \in Results : /\ r.source_name = "src"
                     /\ r.primary_entity = Absent
                     /\ r.link = "https://x.com/u/status/1"}

\* the results that differ in source_name and primary_entity, one accepted
\* and one excluded score each
EntityResults ==
    {r \in Results : /\ r.domain = "other"
                     /\ r.quality_score \in {[kind |-> "int", v |-> 1],
                                             [kind |-> "int", v |-> 4]}
                     /\ r.link = "https://x.com/u/status/1"}

\* the results that differ in link only
LinkResults ==
    {r \in Results : /\ r.domain = "other"
                     /\ r.quality_score = [kind |-> "int", v |-> 4]
                     /\ r.source_name = "src"
                     /\ r.primary_entity = "Google"}

\* the results of the batches explored
WriterFeed == TierResults \cup EntityResults \cup LinkResults

InitWriter ==
    /\ domain_info_map = <<>>
    /\ total_posts = 0
    /\ entity_stats = <<>>
    /\ by_domain = {}
    /\ by_entity = {}
    /\ results_seen = 0
    /\ last_write = NoWrite
    /\ manifest = [written |-> FALSE, total_posts |-> 0, high |-> 0,
                   pending |-> 0, excluded |-> 0, top_entities |-> <<>>]

\* one turn of _worker_loop for a result: _write_post_file(result), then
\* self.total_posts += 1; an exception is logged and the loop goes on
WriterHandles(result, io) ==
    /\ ~manifest.written
    /\ results_seen < MaxResults
    /\ results_seen' = results_seen + 1
    /\ manifest' = manifest
    /\ LET domain == Get(result.domain, "Other")
           qs == result.quality_score
           quality_score == IF qs = NoScore THEN 3 ELSE qs.v
           info == GetDomainInfo(domain_info_map, domain)
           tier == GetQualityTier(quality_score)
           filename == FileName(result)
           dir == <<"By-Domain", info[domain].name, tier>>
           canonical_entity == ResolveEntity(result)
           safe_entity == SafeName(canonical_entity)
           accepted == tier \in {"high", "pending"}
           view == accepted /\ canonical_entity \notin {Null, ""}
           seen == [NoWrite EXCEPT !.seen = TRUE, !.domain = domain,
                                   !.score = quality_score, !.link = result.link,
                                   !.source_name = result.source_name,
                                   !.primary_entity = result.primary_entity]
       IN
       IF qs = NullScore \/ io = "open_fails"
       THEN \* TypeError in _get_quality_tier, or open() raised: only the
            \* domain is registered
            /\ domain_info_map' = info
            /\ last_write' = seen
            /\ UNCHANGED <<total_posts, entity_stats, by_domain, by_entity>>
       ELSE /\ by_domain' = WriteFile(by_domain,
                               [dir |-> dir, name |-> filename, link |-> result.link])
            /\ domain_info_map' = [info EXCEPT ![domain][tier] = @ + 1]
            /\ IF view /\ io = "entity_makedirs_fails"
               THEN \* os.makedirs(entity_dir) raised out of _write_post_file
                    /\ last_write' = [seen EXCEPT !.written = TRUE, !.tier = tier,
                                         !.name = filename,
                                         !.entity = canonical_entity]
                    /\ UNCHANGED <<total_posts, entity_stats, by_entity>>
               ELSE /\ total_posts' = total_posts + 1
                    /\ IF view /\ io # "copy_fails"
                       THEN /\ by_entity' = WriteFile(by_entity,
                                               [dir |-> <<"By-Entity", safe_entity>>,
                                                name |-> filename,
                                                link |-> result.link])
                            /\ entity_stats' =
                                  [e \in DOMAIN entity_stats \cup {safe_entity} |->
                                      IF e = safe_entity
                                      THEN (IF e \in DOMAIN entity_stats
                                            THEN entity_stats[e] ELSE 0) + 1
                                      ELSE entity_stats[e]]
                       ELSE UNCHANGED <<by_entity, entity_stats>>
                    /\ last_write' = [seen EXCEPT !.written = TRUE, !.counted = TRUE,
                                         !.copied = view /\ io # "copy_fails",
                                         !.tier = tier, !.name = filename,
                                         !.entity = canonical_entity]
    /\ UNCHANGED <<feed, notWriteVars>>

RECURSIVE SumOver(_, _, _)
\* sum(info[tier] for info in self.domain_info_map.values())
SumOver(map, keys, field) ==
    IF keys = {} THEN 0
    ELSE LET k == CHOOSE x \in keys : TRUE IN
            (IF field = "count" THEN map[k] ELSE map[k][field])
               + SumOver(map, keys \ {k}, field)

\* the turn for the sentinel: _finalize_batch saves the manifest, the loop ends
WriterFinalizes ==
    /\ ~manifest.written
    /\ manifest' =
          [written |-> TRUE,
           total_posts |-> total_posts,
           high |-> SumOver(domain_info_map, DOMAIN domain_info_map, "high"),
           pending |-> SumOver(domain_info_map, DOMAIN domain_info_map, "pending"),
           excluded |-> SumOver(domain_info_map, DOMAIN domain_info_map, "excluded"),
           top_entities |-> entity_stats]
    /\ UNCHANGED <<domain_info_map, total_posts, entity_stats, by_domain,
                   by_entity, results_seen, last_write, feed,
                   notWriteVars>>

NextWriter ==
    \/ \E result \in feed, io \in IoOutcomes : WriterHandles(result, io)
    \/ WriterFinalizes

(***************************************************************************)
(* Properties of the Write stage                                           *)
(***************************************************************************)
\* the closed set D of domains of the data model
D == {"llm-tech-products", "data-platforms", "ai-platforms", "agent-platforms",
      "code-agents", "data-agents", "vertical-agents", "embodied-ai", "other"}

\* the tier of a score as the data model states it
ClaimTier(score) ==
    CASE score >= 4 -> "high"
      [] score >= 2 /\ score <= 3 -> "pending"
      [] score <= 1 -> "excluded"

Accepted(w) == w.written /\ w.tier \in {"high", "pending"}

\* C22: in the manifest written at the end of the batch, total_posts is
\* high + pending + excluded, and the per-entity counts of top_entities add
\* up to high + pending.
C22_ManifestTotals ==
    manifest.written =>
        /\ manifest.total_posts = manifest.high + manifest.pending + manifest.excluded
        /\ SumOver(manifest.top_entities, DOMAIN manifest.top_entities, "count")
              = manifest.high + manifest.pending

\* the totals agree in the manifest of a batch of accepted posts
C22_WitnessAgree ==
    /\ manifest.written
    /\ manifest.total_posts = MaxResults
    /\ manifest.high + manifest.pending = MaxResults
    /\ SumOver(manifest.top_entities, DOMAIN manifest.top_entities, "count") = MaxResults

\* C23: the file of the post just accepted (tier high or pending) has been
\* copied into By-Entity, into the directory of exactly one entity; for a
\* post of tier excluded no copy is made.
C23_OneEntityCopy ==
    last_write.written =>
        IF Accepted(last_write)
        THEN /\ last_write.copied
             /\ \E f \in by_entity : f.name = last_write.name /\ f.link = last_write.link
             /\ Cardinality({f.dir : f \in {g \in by_entity :
                                  g.name = last_write.name /\ g.link = last_write.link}}) = 1
        ELSE ~last_write.copied

\* an accepted post with its one copy, and an excluded post without
C23_WitnessCopied ==
    /\ Accepted(last_write) /\ last_write.copied
    /\ \E f \in by_entity : f.name = last_write.name /\ f.dir = <<"By-Entity", "OpenAI">>

\* the per-tier counter of a domain, 0 before the domain is registered
TierCount(map, domain, tier) ==
    IF domain \in DOMAIN map THEN map[domain][tier] ELSE 0

\* C24: whenever the writer writes a post, the file is put in the tier
\* directory of tier(quality_score) - high iff score >= 4, pending iff
\* 2 <= score <= 3, excluded iff score <= 1 - and the counter of that tier,
\* and of no other tier, is incremented.
C24_TierOfScore ==
    [][(results_seen' # results_seen /\ last_write'.written) =>
          LET w == last_write'
              t == ClaimTier(w.score)
          IN /\ w.tier = t
             /\ [dir |-> <<"By-Domain", SafeName(w.domain), t>>,
                 name |-> w.name, link |-> w.link] \in by_domain'
             /\ \A u \in Tiers :
                   TierCount(domain_info_map', w.domain, u)
                      = TierCount(domain_info_map, w.domain, u)
                           + (IF u = t THEN 1 ELSE 0)]_vars

\* a post of score 4 was written to high and counted there
C24_Witness ==
    /\ last_write.written /\ last_write.score = 4
    /\ last_write.tier = "high"
    /\ domain_info_map[last_write.domain].high >= 1
    /\ \E f \in by_domain : f.dir[3] = "high" /\ f.name = last_write.name

\* posts of scores 1, 2 and 3 written to excluded, pending and pending
C24_WitnessLow ==
    /\ last_write.written /\ last_write.score \in 1..3
    /\ last_write.tier = (IF last_write.score = 1 THEN "excluded" ELSE "pending")
    /\ results_seen = MaxResults

\* C25: every post written to disk has a domain of the closed set D and an
\* integer quality_score in 1..5.
C25_DomainAndScoreInRange ==
    last_write.written => last_write.domain \in D /\ last_write.score \in 1..5

\* a post within the ranges was written
C25_WitnessInRange ==
    last_write.written /\ last_write.domain \in D /\ last_write.score \in 1..5

\* the entity of a post by the priority of the contract: the source mapping,
\* else a primary_entity that is one of the configured entities, else Others
ClaimEntity(w) ==
    LET by_source == SourceToEntity(Lower(w.source_name)) IN
       IF by_source # Null THEN by_source
       ELSE IF w.primary_entity \in DOMAIN EntityMapping THEN w.primary_entity
       ELSE "Others"

\* C26: the copy of the post just accepted lies in the By-Entity directory
\* of the entity resolved by: (1) the source mapping, compared
\* case-insensitively; else (2) the LLM's primary_entity if present and a
\* configured entity; else (3) Others.
C26_EntityPriority ==
    Accepted(last_write) /\ last_write.counted =>
        [dir |-> <<"By-Entity", ClaimEntity(last_write)>>,
         name |-> last_write.name, link |-> last_write.link] \in by_entity

\* the post of source Sam-Altman was copied to By-Entity/OpenAI although the
\* LLM named Google
C26_WitnessSourceFirst ==
    /\ Accepted(last_write) /\ last_write.copied
    /\ last_write.source_name = "Sam-Altman" /\ last_write.primary_entity = "Google"
    /\ \E f \in by_entity : f.dir = <<"By-Entity", "OpenAI">> /\ f.name = last_write.name

\* C27: a post is never written to the file name of a post with another
\* link, so it overwrites no file of another post.
C27_DistinctLinksDistinctNames ==
    [][(results_seen' # results_seen /\ last_write'.written) =>
          \A f \in by_domain :
             f.link # last_write'.link => f.name # last_write'.name]_vars

\* two posts with distinct links lie side by side in one directory
C27_WitnessSideBySide ==
    \E f, g \in by_domain : f.dir = g.dir /\ f.link # g.link /\ f.name # g.name

(***************************************************************************)
(* FetcherStage, task by task: the two pools, the sleep before an X fetch  *)
(* and the outcomes of _fetch_recent_posts                                 *)
(***************************************************************************)
\* what _fetch_recent_posts ends with: a list of posts, an empty list because
\* no entry is recent, or one of the failures it catches
FailureOutcomes == {"timeout", "request_exception", "bozo_no_entries", "loop_exception"}
FeedOutcomes == {"posts", "nothing_recent"} \cup FailureOutcomes

\* [crawler] x_request_delay_min / x_request_delay_max of the config
Delays == 0..MaxDelay

UniformFromZero(a, b) == {t \in Delays : t <= a \/ t <= b}

\* random.uniform(a, b) = a + (b - a) * random(): a value between the two,
\* whichever is the larger
Uniform(a, b) == {t \in Delays : (a <= t /\ t <= b) \/ (b <= t /\ t <= a)}

\* rss_sources given to start(): how many weixin / YouTube feeds and how many
\* X feeds
RssSources == {[general |-> NumGeneral, x |-> 0], [general |-> 1, x |-> NumX]}

\* a task submitted to restricted_pool and not yet taken by its worker; rem
\* is what is left of sleep_time, slept the seconds slept so far (capped),
\* left the posts still to put
NewXTask == [st |-> "pending", rem |-> 0, slept |-> 0, left |-> 0, puts |-> 0,
             outcome |-> "-"]

\* a batch with a few feeds of each kind, and the fallback delays 30 / 60
\* scaled down
MixedSources == {[general |-> 2, x |-> 2]}
FallbackDelays == {[min |-> 1, max |-> 2]}

\* __init__ and start(rss_sources): every feed is a pending task of its pool
InitFetch(sources, delays) ==
    /\ \E src \in sources :
          /\ general = [pending |-> src.general, fetching |-> 0,
                        putting |-> [k \in 1..MaxFeedPosts |-> 0],
                        done |-> 0, none |-> 0, failed |-> 0, puts |-> 0]
          /\ x_tasks = [i \in 1..src.x |-> NewXTask]
          /\ x_delay \in (IF src.x = 0 THEN {[min |-> 0, max |-> 0]} ELSE delays)
    /\ since_x = MaxDelay
    /\ fq = 0
    /\ fetch_joined = FALSE

RECURSIVE SumTo(_, _)
SumTo(f, n) == IF n = 0 THEN 0 ELSE f[n] + SumTo(f, n - 1)

\* tasks of general_pool a worker is running
GeneralActive == general.fetching + SumTo(general.putting, MaxFeedPosts)

\* tasks of restricted_pool a worker is running
XActive == {i \in DOMAIN x_tasks : x_tasks[i].st \in {"sleeping", "fetching", "putting"}}

\* an idle worker of general_pool takes the next task: _fetch_task begins
GeneralTaskStarts ==
    /\ general.pending > 0
    /\ GeneralActive < general_workers
    /\ general' = [general EXCEPT !.pending = @ - 1, !.fetching = @ + 1]
    /\ UNCHANGED <<x_tasks, x_delay, since_x, fq, fetch_joined, notFetchVars>>

GeneralFetchReturnsAbortsStage(outcome, n) ==
    /\ general.fetching > 0
    /\ IF outcome = "posts"
       THEN general' = [general EXCEPT !.fetching = @ - 1, !.putting[n] = @ + 1]
       ELSE IF outcome = "nothing_recent"
       THEN general' = [general EXCEPT !.fetching = @ - 1, !.none = @ + 1]
       ELSE general' = [general EXCEPT !.fetching = @ - 1, !.failed = @ + 1]
    /\ fetch_joined' = (fetch_joined \/ outcome \in FailureOutcomes)
    /\ UNCHANGED <<x_tasks, x_delay, since_x, fq, notFetchVars>>

\* _fetch_recent_posts returns in a task of general_pool: n posts to put, or
\* [] (nothing recent, or a failure that was logged) and the task is over
GeneralFetchReturns(outcome, n) ==
    /\ general.fetching > 0
    /\ IF outcome = "posts"
       THEN general' = [general EXCEPT !.fetching = @ - 1, !.putting[n] = @ + 1]
       ELSE IF outcome = "nothing_recent"
       THEN general' = [general EXCEPT !.fetching = @ - 1, !.none = @ + 1]
       ELSE general' = [general EXCEPT !.fetching = @ - 1, !.failed = @ + 1]
    /\ UNCHANGED <<x_tasks, x_delay, since_x, fq, fetch_joined, notFetchVars>>

\* for post in posts: self.fetch_queue.put(post), in a task with k posts left
GeneralPut(k) ==
    /\ general.putting[k] > 0
    /\ fq < QueueCap
    /\ fq' = fq + 1
    /\ general' = IF k = 1
                  THEN [general EXCEPT !.putting[1] = @ - 1, !.done = @ + 1,
                                       !.puts = @ + 1]
                  ELSE [general EXCEPT !.putting[k] = @ - 1,
                                       !.putting[k - 1] = @ + 1, !.puts = @ + 1]
    /\ UNCHANGED <<x_tasks, x_delay, since_x, fetch_joined, notFetchVars>>

\* the worker of restricted_pool takes the next task, in submission order:
\* _fetch_x_task draws sleep_time and calls time.sleep
XTaskStarts(i) ==
    /\ x_tasks[i].st = "pending"
    /\ \A j \in 1..(i - 1) : x_tasks[j].st # "pending"
    /\ Cardinality(XActive) < restricted_workers
    /\ \E sleep_time \in Uniform(x_delay.min, x_delay.max) :
          x_tasks' = [x_tasks EXCEPT ![i].st = "sleeping", ![i].rem = sleep_time]
    /\ UNCHANGED <<general, x_delay, since_x, fq, fetch_joined, notFetchVars>>

\* one second passes
FetchTick ==
    /\ ~fetch_joined
    /\ x_tasks' = [i \in DOMAIN x_tasks |->
                     IF x_tasks[i].st = "sleeping"
                     THEN [x_tasks[i] EXCEPT
                             !.rem = IF @ > 0 THEN @ - 1 ELSE 0,
                             !.slept = IF @ < MaxDelay THEN @ + 1 ELSE @]
                     ELSE x_tasks[i]]
    /\ since_x' = IF since_x < MaxDelay THEN since_x + 1 ELSE since_x
    /\ UNCHANGED <<general, x_delay, fq, fetch_joined, notFetchVars>>

\* time.sleep(sleep_time) returns, not before sleep_time has passed, and
\* _fetch_task issues the feed request
XSleepEnds(i) ==
    /\ x_tasks[i].st = "sleeping"
    /\ x_tasks[i].rem = 0
    /\ x_tasks' = [x_tasks EXCEPT ![i].st = "fetching"]
    /\ UNCHANGED <<general, x_delay, since_x, fq, fetch_joined, notFetchVars>>

\* _fetch_recent_posts returns in an X task
XFetchReturns(i, outcome, n) ==
    /\ x_tasks[i].st = "fetching"
    /\ x_tasks' = [x_tasks EXCEPT
                     ![i].outcome = IF outcome \in FailureOutcomes THEN "failed"
                                    ELSE outcome,
                     ![i].st = IF outcome = "posts" THEN "putting" ELSE "done",
                     ![i].left = IF outcome = "posts" THEN n ELSE 0,
                     ![i].slept = 0]
    /\ since_x' = 0
    /\ UNCHANGED <<general, x_delay, fq, fetch_joined, notFetchVars>>

\* self.fetch_queue.put(post) in an X task
XPut(i) ==
    /\ x_tasks[i].st = "putting"
    /\ fq < QueueCap
    /\ fq' = fq + 1
    /\ x_tasks' = [x_tasks EXCEPT
                     ![i].puts = @ + 1,
                     ![i].left = @ - 1,
                     ![i].st = IF x_tasks[i].left = 1 THEN "done" ELSE "putting"]
    /\ UNCHANGED <<general, x_delay, since_x, fetch_joined, notFetchVars>>

\* an Enrich worker takes an entry off Q1
FetchQueueGet ==
    /\ fq > 0
    /\ fq' = fq - 1
    /\ UNCHANGED <<general, x_tasks, x_delay, since_x, fetch_joined, notFetchVars>>

AllFetchTasksDone ==
    /\ general.pending = 0 /\ GeneralActive = 0
    /\ \A i \in DOMAIN x_tasks : x_tasks[i].st = "done"

\* join(): every future has completed (an exception of future.result() is
\* logged) and both pools are shut down
FetchJoinReturns ==
    /\ ~fetch_joined
    /\ AllFetchTasksDone
    /\ fetch_joined' = TRUE
    /\ UNCHANGED <<general, x_tasks, x_delay, since_x, fq, notFetchVars>>

NextFetch ==
    \/ GeneralTaskStarts
    \/ \E outcome \in FeedOutcomes, n \in 1..MaxFeedPosts : GeneralFetchReturns(outcome, n)
    \/ \E k \in 1..MaxFeedPosts : GeneralPut(k)
    \/ \E i \in DOMAIN x_tasks : XTaskStarts(i)
    \/ FetchTick
    \/ \E i \in DOMAIN x_tasks : XSleepEnds(i)
    \/ \E i \in DOMAIN x_tasks, outcome \in FeedOutcomes, n \in 1..MaxFeedPosts :
          XFetchReturns(i, outcome, n)
    \/ \E i \in DOMAIN x_tasks : XPut(i)
    \/ FetchQueueGet
    \/ FetchJoinReturns

(***************************************************************************)
(* Properties of the Fetch stage                                           *)
(***************************************************************************)
XFetching == {i \in DOMAIN x_tasks : x_tasks[i].st = "fetching"}

C29_WitnessGeneral == GeneralActive = 5 /\ general.pending >= 1

\* an X task that slept less than delay_min because delay_min > delay_max
C29_WitnessSwapped ==
    \E i \in DOMAIN x_tasks :
        /\ x_tasks[i].st = "fetching"
        /\ x_tasks[i].slept < x_delay.min

FailedX == {i \in DOMAIN x_tasks : x_tasks[i].outcome = "failed"}

\* C30: a task whose feed fetch fails puts nothing on Q1 and ends alone: the
\* step leaves Q1 and every other task as they were; join returns only when
\* every task is over, and it does return.
C30_FailedFetchSkipped ==
    /\ [](/\ \A i \in FailedX : x_tasks[i].puts = 0 /\ x_tasks[i].st = "done"
          /\ general.puts >= general.done
          /\ general.puts <= MaxFeedPosts * (general.done
                                              + SumTo(general.putting, MaxFeedPosts))
          /\ fetch_joined => AllFetchTasksDone)
    /\ [][/\ general'.failed > general.failed
             => /\ fq' = fq /\ x_tasks' = x_tasks /\ ~fetch_joined'
                /\ general' = [general EXCEPT !.fetching = @ - 1, !.failed = @ + 1]
          /\ \A i \in DOMAIN x_tasks :
                (i \in FailedX' /\ i \notin FailedX)
                   => /\ fq' = fq /\ general' = general /\ ~fetch_joined'
                      /\ \A j \in DOMAIN x_tasks \ {i} : x_tasks'[j] = x_tasks[j]]_vars
    /\ <>fetch_joined

\* join returned after the first X feed failed and the second put its posts
C30_Witness ==
    /\ fetch_joined
    /\ 1 \in FailedX
    /\ Len(x_tasks) >= 2 /\ x_tasks[2].puts >= 1

\* join returned after a general feed failed and the other put its posts
C30_WitnessGeneral ==
    /\ fetch_joined
    /\ general.failed >= 1 /\ general.done >= 1
    /\ \A i \in DOMAIN x_tasks : x_tasks[i].puts >= 1

(***************************************************************************)
(* x_scraper: AccountState / AccountPool                                   *)
(***************************************************************************)
AccountIds == 0..(NumAccounts - 1)

\* get_next found no credential (None)
NoAccount == -1

NewAccount == [is_dead |-> FALSE, cooldown_until |-> 0, request_count |-> 0]

IsAvailableIgnoresDead(acc, t) == ~(acc.cooldown_until > t)

\* AccountState.is_available
IsAvailable(acc, t) ==
    IF acc.is_dead THEN FALSE
    ELSE IF acc.cooldown_until > t THEN FALSE
    ELSE TRUE

\* AccountState.cooldown_remaining
CooldownRemaining(acc, t) ==
    IF acc.cooldown_until - t > 0 THEN acc.cooldown_until - t ELSE 0

\* the loop of get_next: at most k more credentials are tried, from idx on
RECURSIVE Scan(_, _, _, _)
Scan(accs, idx, k, t) ==
    IF k = 0 THEN [account |-> NoAccount, index |-> idx]
    ELSE LET nxt == (idx + 1) % NumAccounts IN
            IF IsAvailable(accs[idx], t)
            THEN [account |-> idx, index |-> nxt]
            ELSE Scan(accs, nxt, k - 1, t)

GetNextFromFirst(accs, idx, t) ==
    LET r == Scan(accs, 0, NumAccounts, t) IN
       [account |-> r.account,
        index |-> r.index,
        accounts |-> IF r.account = NoAccount THEN accs
                     ELSE [accs EXCEPT ![r.account].request_count = @ + 1]]

\* AccountPool.get_next: the credential returned, the new _current_index, the
\* accounts with the returned one's request_count incremented
GetNext(accs, idx, t) ==
    LET r == Scan(accs, idx, NumAccounts, t) IN
       [account |-> r.account,
        index |-> r.index,
        accounts |-> IF r.account = NoAccount THEN accs
                     ELSE [accs EXCEPT ![r.account].request_count = @ + 1]]

MarkRateLimitedNoCooldown(accs, a, cooldown_seconds, t) == accs

\* AccountPool.mark_rate_limited
MarkRateLimited(accs, a, cooldown_seconds, t) ==
    [accs EXCEPT ![a].cooldown_until = t + cooldown_seconds]

MarkDeadForgets(accs, a) == accs

\* AccountPool.mark_dead
MarkDead(accs, a) == [accs EXCEPT ![a].is_dead = TRUE]

AllDeadOverlooked(accs) == FALSE

\* all(a.is_dead for a in self.accounts)
AllDead(accs) == \A a \in AccountIds : accs[a].is_dead

Min2(x, y) == IF x <= y THEN x ELSE y

SetMin(S) == CHOOSE x \in S : \A y \in S : x <= y

WaitTimeUncapped(accs, t, dl) ==
    LET waits == {CooldownRemaining(accs[a], t) :
                    a \in {x \in AccountIds : ~accs[x].is_dead
                                              /\ CooldownRemaining(accs[x], t) > 0}}
        min_wait == IF waits = {} THEN 1 ELSE SetMin(waits)
    IN min_wait + 1

\* wait_for_available: the sleep of one iteration that found nothing
WaitTime(accs, t, dl) ==
    LET waits == {CooldownRemaining(accs[a], t) :
                    a \in {x \in AccountIds : ~accs[x].is_dead
                                              /\ CooldownRemaining(accs[x], t) > 0}}
        min_wait == IF waits = {} THEN 1 ELSE SetMin(waits)
    IN Min2(Min2(min_wait + 1, dl - t), 60)

InitPool ==
    /\ accounts = [a \in AccountIds |-> NewAccount]
    /\ current_index = 0
    /\ now = 0
    /\ pool_op = [op |-> "init", ret |-> NoAccount, fresh |-> TRUE]


\* a caller calls pool.get_next()
PoolGetNext ==
    /\ \E r \in {GetNext(accounts, current_index, now)} :
          /\ r.account # NoAccount => accounts[r.account].request_count < MaxRequests
          /\ accounts' = r.accounts
          /\ current_index' = r.index
          /\ pool_op' = [op |-> "get_next", ret |-> r.account,
                        fresh |-> pool_op.fresh]
    /\ UNCHANGED <<now, pipeVars, stageVars, llmVars, threadVars, clientVars, sweepVars>>

\* a caller calls pool.mark_rate_limited(account, cooldown_seconds)
PoolMarkRateLimited(a, secs) ==
    /\ accounts' = MarkRateLimited(accounts, a, secs, now)
    /\ pool_op' = [op |-> "mark_rate_limited", ret |-> NoAccount,
                  fresh |-> FALSE]
    /\ UNCHANGED <<current_index, now, pipeVars, stageVars, llmVars, threadVars, clientVars, sweepVars>>

\* a caller calls pool.mark_dead(account)
PoolMarkDead(a) ==
    /\ accounts' = MarkDead(accounts, a)
    /\ pool_op' = [op |-> "mark_dead", ret |-> NoAccount, fresh |-> FALSE]
    /\ UNCHANGED <<current_index, now, pipeVars, stageVars, llmVars, threadVars, clientVars, sweepVars>>

\* one second passes
PoolTick ==
    /\ now < MaxTime
    /\ now' = now + 1
    /\ pool_op' = [op |-> "tick", ret |-> NoAccount, fresh |-> pool_op.fresh]
    /\ UNCHANGED <<accounts, current_index, pipeVars, stageVars, llmVars, threadVars, clientVars, sweepVars>>

NextPool ==
    \/ PoolGetNext
    \/ \E a \in AccountIds, secs \in 0..MaxRetryAfter : PoolMarkRateLimited(a, secs)
    \/ \E a \in AccountIds : PoolMarkDead(a)
    \/ PoolTick

(***************************************************************************)
(* Properties of the credential pool                                       *)
(***************************************************************************)
Eligible(a) == ~accounts[a].is_dead /\ accounts[a].cooldown_until <= now

\* C4: whatever get_next, mark_rate_limited and mark_dead calls and clock ticks
\* came before, the credential get_next returns is not dead and its
\* cooldown_until is not later than now, and get_next returns None exactly when
\* no credential is eligible.
C4_GetNextEligible ==
    pool_op.op = "get_next" =>
       /\ pool_op.ret # NoAccount => Eligible(pool_op.ret)
       /\ pool_op.ret = NoAccount <=> \A a \in AccountIds : ~Eligible(a)

\* get_next skips the dead credential 0 and returns credential 1, whose earlier
\* cooldown has expired
C4_Witness ==
    /\ pool_op.op = "get_next"
    /\ pool_op.ret = 1
    /\ accounts[0].is_dead
    /\ accounts[1].cooldown_until > 0
    /\ accounts[1].cooldown_until <= now

\* get_next returns None while a credential is cooling and the other is dead
C4_WitnessNone ==
    /\ pool_op.op = "get_next"
    /\ pool_op.ret = NoAccount
    /\ \E a \in AccountIds : accounts[a].is_dead
    /\ \E a \in AccountIds : ~accounts[a].is_dead /\ accounts[a].cooldown_until > now

\* slots from the rotation index idx up to credential a, cyclically
SlotsAhead(idx, a) == (a - idx + NumAccounts) % NumAccounts

\* get_next calls that returned a credential so far
RECURSIVE TotalRequests(_, _)
TotalRequests(accs, n) ==
    IF n = 0 THEN 0 ELSE accs[n - 1].request_count + TotalRequests(accs, n - 1)

C16_WitnessSecondCall ==
    /\ pool_op.op = "get_next"
    /\ pool_op.fresh
    /\ pool_op.ret = 1
    /\ \A a \in AccountIds : accounts[a].request_count = 1

(***************************************************************************)
(* x_scraper: XClient circuit breaker and _request_with_retry              *)
(***************************************************************************)
\* wait_for_available(timeout=300)
WaitTimeout == 300

\* RateLimitError(retry_after=900): GraphQL code 88, and a 429 whose
\* retry-after header is not an integer
DefaultRetryAfter == 900

\* the clock value up to which the sleeps of a call are followed: MaxTime for
\* calls made on their own, MaxSweepTime for the page requests of a sweep
Horizon == IF sweep_pc = "request" THEN MaxSweepTime ELSE MaxTime

BreakerNoSleep(open_until, t) == 0

\* _check_circuit_breaker: the seconds it sleeps
BreakerSleep(open_until, t) ==
    IF open_until > 0 /\ open_until - t > 0
    THEN Min2(open_until - t, cb_cooldown)
    ELSE 0

HalfOpenResetsCounter(failures) == 0

\* _check_circuit_breaker leaves _cb_consecutive_failures as it is
HalfOpenFailures(failures) == failures

\* _record_success
RecordSuccess(open_until) == [failures |-> 0, open_until |-> 0]

RecordFailureAboveThreshold(failures, open_until, t) ==
    LET f == failures + 1 IN
       IF f > cb_threshold
       THEN [failures |-> f, open_until |-> t + cb_cooldown, opened |-> TRUE]
       ELSE [failures |-> f, open_until |-> open_until, opened |-> FALSE]

\* _record_failure: the new counter, the new open_until, and whether this
\* failure opened the breaker
RecordFailure(failures, open_until, t) ==
    LET f == failures + 1 IN
       IF f >= cb_threshold
       THEN [failures |-> f, open_until |-> t + cb_cooldown, opened |-> TRUE]
       ELSE [failures |-> f, open_until |-> open_until, opened |-> FALSE]

MoreAttemptsOffByOne(k) == k <= max_retries

\* for attempt in range(self.max_retries)
MoreAttempts(k) == k < max_retries

\* the history of a call: HTTP requests issued, how many succeeded and failed,
\* whether one of them opened the breaker, whether the call found the breaker
\* open (half-open branch) and how long it slept there, the credential its
\* last attempt got rate-limited on (if it was) and the Retry-After of that
\* answer; and of the breaker: failed attempts since the last success, and
\* the open_until of the last opening not yet followed by a success
NewCall == [http |-> 0, ok |-> 0, fails |-> 0, opened |-> FALSE,
            half_open |-> FALSE, breaker_wait |-> 0,
            limited |-> NoAccount, retry_after |-> 0]

InitClient ==
    /\ max_retries \in 1..MaxRetries
    /\ cb_threshold \in 1..MaxThreshold
    /\ cb_failures = 0
    /\ cb_open_until = 0
    /\ pc = "idle"
    /\ attempt = 0
    /\ account = NoAccount
    /\ deadline = 0
    /\ call_result = "none"
    /\ calls = 0
    /\ call = [cur |-> NewCall, fails_since_ok |-> 0, opened_until |-> 0,
               last |-> "none"]

\* _request_with_retry is entered: _check_circuit_breaker sleeps out an open
\* breaker and clears _cb_open_until
CallStart ==
    /\ pc = "idle"
    /\ calls < MaxCalls
    /\ LET d == BreakerSleep(cb_open_until, now) IN
          /\ now + d <= Horizon
          /\ now' = now + d
    /\ cb_open_until' = IF cb_open_until > 0 THEN 0 ELSE cb_open_until
    /\ cb_failures' = IF cb_open_until > 0 THEN HalfOpenFailures(cb_failures)
                      ELSE cb_failures
    /\ pc' = "attempt"
    /\ attempt' = 0
    /\ account' = NoAccount
    /\ call_result' = "none"
    /\ calls' = calls + 1
    /\ call' = [call EXCEPT
                   !.cur = [NewCall EXCEPT
                              !.half_open = (cb_open_until > 0),
                              !.breaker_wait = BreakerSleep(cb_open_until, now)],
                   !.last = "check"]
    /\ UNCHANGED <<accounts, current_index, pool_op, max_retries, cb_threshold,
                   deadline, pipeVars, stageVars, llmVars, threadVars, sweepVars>>

\* the for loop is exhausted: return None
LoopExit ==
    /\ pc = "attempt"
    /\ ~MoreAttempts(attempt)
    /\ pc' = "idle"
    /\ call_result' = "empty"
    /\ call' = [call EXCEPT !.last = "return"]
    /\ UNCHANGED <<accounts, current_index, now, pool_op, max_retries,
                   cb_threshold, cb_failures, cb_open_until, attempt, account,
                   deadline, calls, pipeVars, stageVars, llmVars, threadVars, sweepVars>>

\* account = self.account_pool.get_next(); None leads into wait_for_available
AttemptGetNext ==
    /\ pc = "attempt"
    /\ MoreAttempts(attempt)
    /\ LET r == GetNext(accounts, current_index, now) IN
          /\ accounts' = r.accounts
          /\ current_index' = r.index
          /\ account' = r.account
          /\ pc' = IF r.account = NoAccount THEN "wait" ELSE "request"
          /\ deadline' = IF r.account = NoAccount THEN now + WaitTimeout ELSE deadline
    /\ call' = [call EXCEPT !.last = "get_next"]
    /\ UNCHANGED <<now, pool_op, max_retries, cb_threshold, cb_failures,
                   cb_open_until, attempt, call_result, calls, pipeVars, stageVars, llmVars, threadVars, sweepVars>>

\* one iteration of wait_for_available's loop
WaitIteration ==
    /\ pc = "wait"
    /\ IF ~(now < deadline)
       THEN /\ pc' = "idle"
            /\ call_result' = "empty"
            /\ UNCHANGED <<accounts, current_index, account, now>>
       ELSE LET r == GetNext(accounts, current_index, now) IN
               IF r.account # NoAccount
               THEN /\ accounts' = r.accounts
                    /\ current_index' = r.index
                    /\ account' = r.account
                    /\ pc' = "request"
                    /\ UNCHANGED <<now, call_result>>
               ELSE IF AllDead(accounts)
               THEN /\ pc' = "idle"
                    /\ call_result' = "empty"
                    /\ current_index' = r.index
                    /\ UNCHANGED <<accounts, account, now>>
               ELSE LET w == WaitTime(accounts, now, deadline) IN
                       IF w <= 0
                       THEN /\ pc' = "idle"
                            /\ call_result' = "empty"
                            /\ current_index' = r.index
                            /\ UNCHANGED <<accounts, account, now>>
                       ELSE /\ now + w <= Horizon
                            /\ now' = now + w
                            /\ current_index' = r.index
                            /\ UNCHANGED <<accounts, account, pc, call_result>>
    /\ call' = [call EXCEPT !.last = "wait"]
    /\ UNCHANGED <<pool_op, max_retries, cb_threshold, cb_failures,
                   cb_open_until, attempt, deadline, calls, pipeVars, stageVars, llmVars, threadVars, sweepVars>>

\* the HTTP request succeeds: _record_success, return result
RequestOk ==
    /\ pc = "request"
    /\ LET rs == RecordSuccess(cb_open_until) IN
          /\ cb_failures' = rs.failures
          /\ cb_open_until' = rs.open_until
    /\ pc' = "idle"
    /\ call_result' = "data"
    /\ call' = [cur |-> [call.cur EXCEPT !.http = @ + 1, !.ok = @ + 1],
                fails_since_ok |-> 0, opened_until |-> 0, last |-> "ok"]
    /\ UNCHANGED <<accounts, current_index, now, pool_op, max_retries,
                   cb_threshold, attempt, account, deadline, calls, pipeVars, stageVars, llmVars, threadVars, sweepVars>>

\* the bookkeeping common to the three except branches
Failed(kind, rf, retry_after) ==
    /\ cb_failures' = rf.failures
    /\ cb_open_until' = rf.open_until
    /\ call' = [cur |-> [call.cur EXCEPT !.http = @ + 1, !.fails = @ + 1,
                                         !.opened = rf.opened,
                                         !.limited = IF kind = "rate_limit"
                                                     THEN account
                                                     ELSE NoAccount,
                                         !.retry_after = retry_after],
                fails_since_ok |-> call.fails_since_ok + 1,
                opened_until |-> IF rf.opened THEN now + cb_cooldown
                                 ELSE call.opened_until,
                last |-> kind]

\* except RateLimitError: mark_rate_limited(account, e.retry_after),
\* _record_failure, break when the breaker opened
RequestRateLimited(retry_after) ==
    /\ pc = "request"
    /\ accounts' = MarkRateLimited(accounts, account, retry_after, now)
    /\ LET rf == RecordFailure(cb_failures, cb_open_until, now) IN
          /\ Failed("rate_limit", rf, retry_after)
          /\ IF rf.opened
             THEN pc' = "idle" /\ call_result' = "empty" /\ attempt' = attempt
             ELSE pc' = "attempt" /\ call_result' = call_result /\ attempt' = attempt + 1
    /\ UNCHANGED <<current_index, now, pool_op, max_retries, cb_threshold,
                   account, deadline, calls, pipeVars, stageVars, llmVars, threadVars, sweepVars>>

\* except AuthError: mark_dead(account), _record_failure, break when opened
RequestAuthError ==
    /\ pc = "request"
    /\ accounts' = MarkDead(accounts, account)
    /\ LET rf == RecordFailure(cb_failures, cb_open_until, now) IN
          /\ Failed("auth", rf, 0)
          /\ IF rf.opened
             THEN pc' = "idle" /\ call_result' = "empty" /\ attempt' = attempt
             ELSE pc' = "attempt" /\ call_result' = call_result /\ attempt' = attempt + 1
    /\ UNCHANGED <<current_index, now, pool_op, max_retries, cb_threshold,
                   account, deadline, calls, pipeVars, stageVars, llmVars, threadVars, sweepVars>>

\* except XClientError: _record_failure, break when opened, else back off
\* before the next attempt if there is one
RequestTransient ==
    /\ pc = "request"
    /\ LET rf == RecordFailure(cb_failures, cb_open_until, now) IN
          /\ Failed("transient", rf, 0)
          /\ IF rf.opened
             THEN pc' = "idle" /\ call_result' = "empty" /\ attempt' = attempt
             ELSE IF attempt < max_retries - 1
             THEN pc' = "backoff" /\ call_result' = call_result /\ attempt' = attempt
             ELSE pc' = "attempt" /\ call_result' = call_result /\ attempt' = attempt + 1
    /\ UNCHANGED <<accounts, current_index, now, pool_op, max_retries,
                   cb_threshold, account, deadline, calls, pipeVars, stageVars, llmVars, threadVars, sweepVars>>

\* wait = (attempt + 1) * 2; time.sleep(wait)
Backoff ==
    /\ pc = "backoff"
    /\ now + (attempt + 1) * 2 <= Horizon
    /\ now' = now + (attempt + 1) * 2
    /\ attempt' = attempt + 1
    /\ pc' = "attempt"
    /\ call' = [call EXCEPT !.last = "backoff"]
    /\ UNCHANGED <<accounts, current_index, pool_op, max_retries, cb_threshold,
                   cb_failures, cb_open_until, account, deadline, call_result, calls,
                   pipeVars, stageVars, llmVars, threadVars, sweepVars>>

\* one second passes between two calls
Tick ==
    /\ pc = "idle"
    /\ now < MaxTime
    /\ now' = now + 1
    /\ call' = [call EXCEPT !.last = "tick"]
    /\ UNCHANGED <<accounts, current_index, pool_op, max_retries, cb_threshold,
                   cb_failures, cb_open_until, pc, attempt, account, deadline,
                   call_result, calls, pipeVars, stageVars, llmVars, threadVars, sweepVars>>

NextClient ==
    \/ CallStart
    \/ LoopExit
    \/ AttemptGetNext
    \/ WaitIteration
    \/ RequestOk
    \/ \E ra \in 0..MaxRetryAfter : RequestRateLimited(ra)
    \/ RequestAuthError
    \/ RequestTransient
    \/ Backoff
    \/ Tick

(***************************************************************************)
(* Properties of the client                                                *)
(***************************************************************************)
FailureKinds == {"rate_limit", "auth", "transient"}

\* the step issues an HTTP request (_make_request is called)
HttpIssued == call'.cur.http = call.cur.http + 1

\* C5: an HTTP request is issued only while _cb_open_until is 0 and the
\* open_until of the last opening has passed; and no request of a call follows
\* the failure of that call that opened the breaker.
C5_NoRequestWhileOpen ==
    [][HttpIssued =>
          /\ cb_open_until = 0
          /\ call.opened_until <= now
          /\ ~call.cur.opened]_vars

\* a later call has slept until open_until and is about to issue its first
\* request
C5_Witness ==
    /\ pc = "request"
    /\ call.cur.http = 0
    /\ call.cur.half_open
    /\ call.cur.breaker_wait = cb_cooldown
    /\ call.opened_until > 0
    /\ call.opened_until = now
    /\ cb_failures >= cb_threshold
    /\ cb_open_until = 0

\* C6: _cb_consecutive_failures equals the number of failed attempts since the
\* last successful request; right after a success it is 0 and _cb_open_until is
\* 0; right after a failure that leaves it at cb_threshold or more,
\* _cb_open_until is now + cb_cooldown.
C6_BreakerCounter ==
    /\ cb_failures = call.fails_since_ok
    /\ call.last = "ok" => cb_failures = 0 /\ cb_open_until = 0
    /\ (call.last \in FailureKinds /\ cb_failures >= cb_threshold) =>
          cb_open_until = now + cb_cooldown

\* failures on both credentials brought the counter to the threshold and the
\* breaker is open
C6_Witness ==
    /\ call.last \in FailureKinds
    /\ cb_threshold = 2
    /\ cb_failures = 2
    /\ cb_open_until = now + cb_cooldown
    /\ accounts[0].request_count = 1
    /\ accounts[1].request_count = 1

\* a success after failures resets the counter
C6_WitnessReset ==
    /\ call.last = "ok"
    /\ call.cur.fails >= 1
    /\ cb_failures = 0

\* C7: a request issued after the breaker opened (with no success since) goes
\* out only once the cooldown has elapsed; if it succeeds the counter is 0 and
\* the breaker closed; if it fails the breaker is open again until
\* now + cb_cooldown and the call returns empty, whatever cb_threshold is.
C7_HalfOpen ==
    [][(HttpIssued /\ call.opened_until > 0) =>
          /\ call.opened_until <= now
          /\ call'.last = "ok" => cb_failures' = 0 /\ cb_open_until' = 0
          /\ call'.last # "ok" =>
                /\ cb_open_until' = now + cb_cooldown
                /\ pc' = "idle"
                /\ call_result' = "empty"]_vars

\* the trial request of a half-open breaker failed and re-opened it: the
\* counter is past a threshold of 2 or more
C7_Witness ==
    /\ call.cur.half_open
    /\ call.last \in FailureKinds
    /\ call.cur.http = 1
    /\ call.cur.opened
    /\ cb_threshold >= 2
    /\ cb_failures = cb_threshold + 1
    /\ cb_open_until = now + cb_cooldown

\* the trial request of a half-open breaker succeeded and closed it
C7_WitnessClose ==
    /\ call.cur.half_open
    /\ call.last = "ok"
    /\ call.cur.http = 1
    /\ cb_failures = 0
    /\ cb_open_until = 0

\* C10: one call issues at most max_retries requests; a successful request is
\* its last one and the call returns its data; after max_retries failed
\* attempts the call issues nothing more and returns the empty result.
C10_RetryBudget ==
    /\ call.cur.http <= max_retries
    /\ call.cur.http = call.cur.ok + call.cur.fails
    /\ call.cur.ok <= 1
    /\ call.cur.ok = 1 => pc = "idle" /\ call_result = "data"
    /\ call_result = "data" => call.cur.ok = 1
    /\ call.cur.fails = max_retries =>
          /\ pc \in {"idle", "attempt"}
          /\ pc = "idle" => call_result = "empty"

\* a call has returned empty after max_retries = 2 failed attempts that did not
\* open the breaker
C10_Witness ==
    /\ pc = "idle"
    /\ call_result = "empty"
    /\ max_retries = 2
    /\ call.cur.fails = 2
    /\ ~call.cur.opened

\* a call has returned the data of its second attempt
C10_WitnessData ==
    /\ pc = "idle"
    /\ call_result = "data"
    /\ call.cur.http = 2
    /\ call.cur.fails = 1

\* the step picks the credential for the attempt that follows a rate-limited
\* attempt of the same call
PicksAfterRateLimit ==
    /\ call.cur.limited # NoAccount
    /\ pc # "request"
    /\ pc' = "request"

PicksAccount == pc # "request" /\ pc' = "request"

\* C12: an attempt classified auth-failure leaves its credential dead; a dead
\* credential stays dead, is not returned by get_next or wait_for_available,
\* and no HTTP request goes out on it, whatever cooldowns were set or expired.
C12_DeadNeverUsed ==
    [][/\ (HttpIssued /\ call'.last = "auth") => accounts'[account].is_dead
       /\ \A a \in AccountIds : accounts[a].is_dead => accounts'[a].is_dead
       /\ PicksAccount => ~accounts[account'].is_dead
       /\ HttpIssued => ~accounts[account].is_dead]_vars

\* credential 0, rate-limited earlier with its cooldown expired since, is
\* dead, and the attempt is about to go out on credential 1
C12_Witness ==
    /\ pc = "request"
    /\ account = 1
    /\ accounts[0].is_dead
    /\ accounts[0].cooldown_until > 0
    /\ accounts[0].cooldown_until <= now
    /\ ~accounts[1].is_dead

\* every credential of the pool is dead
EveryCredentialDead == \A a \in AccountIds : accounts[a].is_dead

\* C13 as amended: while every credential is dead, no HTTP request is issued;
\* wait_for_available returns the empty result without sleeping; a call
\* reaches its empty result through get_next and wait_for_available with no
\* sleep other than the one of _check_circuit_breaker at its start, which
\* lasts at most cb_cooldown.
C13_AllDeadReturnsEmpty ==
    [][EveryCredentialDead =>
          /\ ~HttpIssued
          /\ pc \in {"idle", "attempt", "wait"}
          /\ pc = "wait" =>
                pc' = "idle" /\ call_result' = "empty" /\ now' = now
          /\ pc = "attempt" =>
                /\ now' = now
                /\ \/ pc' = "wait"
                   \/ pc' = "idle" /\ call_result' = "empty"
          /\ (pc = "idle" /\ pc' # "idle") =>
                pc' = "attempt" /\ now' - now <= cb_cooldown]_vars

\* a call made with every credential dead has returned the empty result
\* through wait_for_available, with no request and no sleep
C13_Witness ==
    /\ EveryCredentialDead
    /\ pc = "idle"
    /\ call.last = "wait"
    /\ call_result = "empty"
    /\ call.cur.http = 0
    /\ call.cur.breaker_wait = 0

\* C13 as stated: with every credential dead, no step of a call lets time
\* pass.
C13_NeverBlocks ==
    [][(EveryCredentialDead /\ ~(pc = "idle" /\ pc' = "idle")) =>
          now' = now]_vars

(***************************************************************************)
(* x_scraper: XClient.get_user_tweets_all, the timeline paginator          *)
(***************************************************************************)
TweetIds == 1..MaxIds

\* created_at = None
NoDate == 0

\* the days a tweet's created_at falls on
Days == {1, 2}

\* a since_date that strptime("%Y-%m-%d") rejects
BadDate == 3

\* next_cursor = None: no further page
NoCursor == ""

\* the cursor-bottom values X hands out
Cursors == {"c1", "c2"}

\* no duplicate seen yet on the page (duplicate_sample_id = "")
NoId == 0

max_empty_add_pages == 3

\* the Tweet the parser builds for id i
Tweet(i) == [id |-> i, created_at |-> timeline[i].created_at,
             is_retweet |-> timeline[i].is_retweet]

\* what get_user_tweets can return as tweets: parse_timeline keeps one tweet
\* per id, in any order; the reply filter and a failed request shorten the
\* list, down to the empty one
Pages ==
    {s \in UNION {[1..n -> TweetIds] : n \in 0..MaxIds} :
        \A i, j \in DOMAIN s : i # j => s[i] # s[j]}

\* cutoff_date: None unless since_date is given and parses
CutoffDate(s) ==
    IF s = NoDate THEN NoDate
    ELSE IF s \in Days THEN s
    ELSE NoDate

\* tweet_in_date_range
TweetInDateRange(tweet, cutoff_date) ==
    ~(cutoff_date # NoDate /\ tweet.created_at # NoDate
      /\ tweet.created_at < cutoff_date)

IsDuplicateNever(id, seen) == FALSE

\* tweet.id in seen_tweet_ids
IsDuplicate(id, seen) == id \in seen

PerPageIgnoresCollected(lim, have) == Min2(PageCap, lim)

\* per_page = min(20, limit - len(all_tweets))
PerPage(lim, have) == Min2(PageCap, lim - have)

\* the locals of one pass of the while loop, before the for loop
NewPage == [page_has_new_enough |-> FALSE, skipped_old |-> 0,
            skipped_retweet |-> 0, skipped_duplicate |-> 0, added_count |-> 0,
            duplicate_sample_id |-> NoId]

RECURSIVE PageLoop(_, _, _)
\* the for loop over the tweets of a page, from the k-th tweet on; st holds
\* all_tweets, seen_tweet_ids and the page's locals
PageLoop(tweets, k, st) ==
    IF k > Len(tweets) THEN st
    ELSE LET tweet == Tweet(tweets[k])
             in_range == TweetInDateRange(tweet, CutoffDate(since_date))
             st1 == [st EXCEPT !.page_has_new_enough = @ \/ in_range]
         IN  IF ~in_range
             THEN PageLoop(tweets, k + 1, [st1 EXCEPT !.skipped_old = @ + 1])
             ELSE IF ~include_retweets /\ tweet.is_retweet
             THEN PageLoop(tweets, k + 1,
                           [st1 EXCEPT !.skipped_retweet = @ + 1])
             ELSE IF IsDuplicate(tweet.id, st.seen)
             THEN PageLoop(tweets, k + 1,
                           [st1 EXCEPT !.skipped_duplicate = @ + 1,
                                       !.duplicate_sample_id =
                                           IF @ = NoId THEN tweet.id ELSE @])
             ELSE LET st2 == [st1 EXCEPT !.seen = @ \cup {tweet.id},
                                         !.all = Append(@, tweet),
                                         !.added_count = @ + 1]
                  IN  IF Len(st2.all) >= limit THEN st2
                      ELSE PageLoop(tweets, k + 1, st2)

DuplicatesOnly(p, raw_count) ==
    /\ p.added_count = 0
    /\ p.skipped_duplicate > 0
    /\ p.duplicate_sample_id # NoId
    /\ p.skipped_duplicate >= raw_count

\* A) duplicates dominate the page and nothing was added
DuplicatesDominate(p, raw_count) ==
    /\ p.added_count = 0
    /\ p.skipped_duplicate > 0
    /\ p.duplicate_sample_id # NoId
    /\ p.skipped_old + p.skipped_retweet + p.skipped_duplicate >= raw_count

\* B) old_ratio >= near_all_old_threshold (0.9) and nothing was added
NearAllOld(p, raw_count) ==
    /\ p.added_count = 0
    /\ CutoffDate(since_date) # NoDate
    /\ raw_count > 0
    /\ 10 * p.skipped_old >= 9 * raw_count

StopsPagingForgetsCursors(p, raw_count, empties, next_cursor) ==
    \/ DuplicatesDominate(p, raw_count)
    \/ NearAllOld(p, raw_count)
    \/ empties >= max_empty_add_pages
    \/ CutoffDate(since_date) # NoDate /\ ~p.page_has_new_enough
    \/ next_cursor = NoCursor
    \/ next_cursor = cursor

StopsPagingKeepsEmptyPages(p, raw_count, empties, next_cursor) ==
    \/ DuplicatesDominate(p, raw_count)
    \/ NearAllOld(p, raw_count)
    \/ CutoffDate(since_date) # NoDate /\ ~p.page_has_new_enough
    \/ next_cursor = NoCursor
    \/ next_cursor = cursor
    \/ next_cursor \in seen_cursors

\* the breaks after the for loop, in the order of the code
StopsPaging(p, raw_count, empties, next_cursor) ==
    \/ DuplicatesDominate(p, raw_count)
    \/ NearAllOld(p, raw_count)
    \/ empties >= max_empty_add_pages
    \/ CutoffDate(since_date) # NoDate /\ ~p.page_has_new_enough
    \/ next_cursor = NoCursor
    \/ next_cursor = cursor
    \/ next_cursor \in seen_cursors

NoPageLog == [n |-> 0, per_page |-> 0, have |-> 0, raw |-> 0, skipped_old |-> 0,
              skipped_retweet |-> 0, skipped_duplicate |-> 0, added_count |-> 0]

\* orders the tweets X can hold
Rank(t) == 2 * t.created_at + (IF t.is_retweet THEN 1 ELSE 0)

\* the paginator only compares ids for equality, so the timeline is taken up
\* to a renaming of the ids: its tweets are listed in the order of Rank
InitSweep ==
    /\ timeline \in [TweetIds -> [created_at : {NoDate} \cup Days,
                                  is_retweet : BOOLEAN]]
    /\ \A i, j \in TweetIds : i < j => Rank(timeline[i]) <= Rank(timeline[j])
    /\ limit \in 0..MaxLimit
    /\ since_date \in {NoDate, BadDate} \cup Days
    /\ include_retweets \in BOOLEAN
    /\ all_tweets = <<>>
    /\ cursor = NoCursor
    /\ seen_tweet_ids = {}
    /\ seen_cursors = {}
    /\ empty_add_pages = 0
    /\ sweep_pc = "loop"
    /\ page_log = NoPageLog

\* the request of one pass of the while loop, as the log has it: the count
\* asked for and len(all_tweets) then
PageRequest ==
    [NoPageLog EXCEPT !.n = page_log.n + 1,
                      !.per_page = PerPage(limit, Len(all_tweets)),
                      !.have = Len(all_tweets)]

PageAnswerFollowsEmptyPage(tweets, next_cursor, req) ==
    \E st \in {PageLoop(tweets, 1,
                        NewPage @@ [all |-> all_tweets,
                                    seen |-> seen_tweet_ids])} :
       LET empties == IF st.added_count = 0 THEN empty_add_pages + 1 ELSE 0
       IN  /\ all_tweets' = st.all
           /\ seen_tweet_ids' = st.seen
           /\ empty_add_pages' = empties
           /\ page_log' = [req EXCEPT
                              !.raw = Len(tweets),
                              !.skipped_old = st.skipped_old,
                              !.skipped_retweet = st.skipped_retweet,
                              !.skipped_duplicate = st.skipped_duplicate,
                              !.added_count = st.added_count]
           /\ IF StopsPaging(st, Len(tweets), empties, next_cursor)
              THEN /\ sweep_pc' = "returned"
                   /\ UNCHANGED <<cursor, seen_cursors>>
              ELSE /\ sweep_pc' = "loop"
                   /\ seen_cursors' = seen_cursors \cup {next_cursor}
                   /\ cursor' = next_cursor

\* the rest of the pass, from what get_user_tweets returned for request req:
\* the for loop over the tweets and the checks that end or continue the paging
PageAnswer(tweets, next_cursor, req) ==
    \E st \in {PageLoop(tweets, 1,
                        NewPage @@ [all |-> all_tweets,
                                    seen |-> seen_tweet_ids])} :
       LET empties == IF st.added_count = 0 THEN empty_add_pages + 1 ELSE 0
       IN  IF tweets = <<>>
           THEN /\ sweep_pc' = "returned"
                /\ page_log' = req
                /\ UNCHANGED <<all_tweets, seen_tweet_ids, empty_add_pages,
                               cursor, seen_cursors>>
           ELSE /\ all_tweets' = st.all
                /\ seen_tweet_ids' = st.seen
                /\ empty_add_pages' = empties
                /\ page_log' = [req EXCEPT
                                   !.raw = Len(tweets),
                                   !.skipped_old = st.skipped_old,
                                   !.skipped_retweet = st.skipped_retweet,
                                   !.skipped_duplicate = st.skipped_duplicate,
                                   !.added_count = st.added_count]
                /\ IF StopsPaging(st, Len(tweets), empties, next_cursor)
                   THEN /\ sweep_pc' = "returned"
                        /\ UNCHANGED <<cursor, seen_cursors>>
                   ELSE /\ sweep_pc' = "loop"
                        /\ seen_cursors' = seen_cursors \cup {next_cursor}
                        /\ cursor' = next_cursor

\* one pass of the while loop: the page request, the for loop over its
\* tweets, and the checks that end or continue the paging
SweepPage(tweets, next_cursor) ==
    /\ sweep_pc = "loop"
    /\ Len(all_tweets) < limit
    /\ PageAnswer(tweets, next_cursor, PageRequest)
    /\ UNCHANGED <<timeline, limit, since_date, include_retweets, pipeVars, stageVars, llmVars, threadVars,
                   poolVars, clientVars>>

\* the while test fails: return all_tweets
SweepReturn ==
    /\ sweep_pc = "loop"
    /\ ~(Len(all_tweets) < limit)
    /\ sweep_pc' = "returned"
    /\ UNCHANGED <<timeline, limit, since_date, include_retweets, all_tweets,
                   cursor, seen_tweet_ids, seen_cursors, empty_add_pages,
                   page_log, pipeVars, stageVars, llmVars, threadVars, poolVars, clientVars>>

NextSweep ==
    \/ \E tweets \in Pages, next_cursor \in Cursors \cup {NoCursor} :
          SweepPage(tweets, next_cursor)
    \/ SweepReturn

(***************************************************************************)
(* x_scraper: a sweep whose page requests go through _request_with_retry   *)
(***************************************************************************)
\* a pass of the while loop starts: per_page is computed and get_user_tweets
\* is called, which enters _request_with_retry
SweepCall ==
    /\ sweep_pc = "loop"
    /\ Len(all_tweets) < limit
    /\ pc = "idle"
    /\ calls < MaxCalls
    /\ sweep_pc' = "request"
    /\ page_log' = PageRequest
    /\ UNCHANGED <<timeline, limit, since_date, include_retweets, all_tweets,
                   cursor, seen_tweet_ids, seen_cursors, empty_add_pages,
                   pipeVars, stageVars, llmVars, threadVars, poolVars, clientVars>>

\* the page request has not entered _request_with_retry yet
CallPending == sweep_pc = "request" /\ pc = "idle" /\ calls = page_log.n - 1

\* _request_with_retry has returned to get_user_tweets
CallReturned == sweep_pc = "request" /\ pc = "idle" /\ calls = page_log.n

\* get_user_tweets returns ([], None) when the call returned None, else what
\* the response parses to; the pass goes on from there, and sleeps the page
\* delay when the paging continues
SweepAnswer(tweets, next_cursor, delay) ==
    /\ CallReturned
    /\ call_result = "empty" => tweets = <<>>
    /\ PageAnswer(tweets, next_cursor, page_log)
    /\ now' = IF sweep_pc' = "loop" THEN now + delay ELSE now
    /\ sweep_pc' # "loop" => delay = 0
    /\ UNCHANGED <<timeline, limit, since_date, include_retweets, accounts,
                   current_index, pool_op, pipeVars, stageVars, llmVars, threadVars, clientVars>>

\* the retry-after values a rate-limit answer carries here: a short one and
\* the default
RetryAfters == {MaxRetryAfter, DefaultRetryAfter}

NextSweepCalls ==
    \/ SweepCall
    \/ CallPending /\ CallStart
    \/ sweep_pc = "request" /\ LoopExit
    \/ sweep_pc = "request" /\ AttemptGetNext
    \/ sweep_pc = "request" /\ WaitIteration
    \/ sweep_pc = "request" /\ RequestOk
    \/ \E ra \in RetryAfters : sweep_pc = "request" /\ RequestRateLimited(ra)
    \/ sweep_pc = "request" /\ RequestAuthError
    \/ sweep_pc = "request" /\ RequestTransient
    \/ sweep_pc = "request" /\ Backoff
    \/ \E tweets \in Pages, next_cursor \in Cursors \cup {NoCursor},
          delay \in 0..MaxPageDelay :
          SweepAnswer(tweets, next_cursor, delay)
    \/ SweepReturn

\* a sweep over plain tweets without filters
InitSweepCalls ==
    /\ InitSweep
    /\ \A i \in TweetIds : timeline[i] = [created_at |-> NoDate,
                                           is_retweet |-> FALSE]
    /\ limit >= 1
    /\ since_date = NoDate
    /\ include_retweets

(***************************************************************************)
(* Properties of a sweep over the client                                   *)
(***************************************************************************)
\* the call of the sweep's last page request met one failure, a rate-limit,
\* which left attempts in its budget and did not open the breaker; no other
\* credential has been rate-limited
OneRateLimitOnly ==
    /\ calls = page_log.n
    /\ call.cur.fails = 1
    /\ call.cur.limited # NoAccount
    /\ ~call.cur.opened
    /\ max_retries >= 2
    /\ \A a \in AccountIds \ {call.cur.limited} : accounts[a].cooldown_until = 0

\* C14: a sweep is not cut short by a rate-limit: when the only failure of a
\* page request after the first page is one rate-limit on a credential, the
\* request is answered on another eligible credential, or on the same one
\* after its cooldown, so the sweep never ends on the empty result of that
\* request.
C14_SweepNotCutShort ==
    (sweep_pc = "returned" /\ page_log.n >= 2 /\ OneRateLimitOnly)
        => call_result = "data"

\* the cases of C14 that the code serves: the request answered on the other
\* credential, and on the same credential after a short cooldown
C14_WitnessRotated ==
    /\ page_log.n >= 2 /\ OneRateLimitOnly /\ call_result = "data"
    /\ account # call.cur.limited

C14_WitnessWaited ==
    /\ page_log.n >= 2 /\ OneRateLimitOnly /\ call_result = "data"
    /\ account = call.cur.limited

(***************************************************************************)
(* Properties of the paginator                                             *)
(***************************************************************************)
\* C8: the list get_user_tweets_all returns holds no two tweets with the same
\* id; when since_date is a date, no returned tweet has a created_at earlier
\* than it; when include_retweets is false, no returned tweet is a retweet;
\* whatever pages the requests returned.
C8_ResultFiltered ==
    sweep_pc = "returned" =>
       /\ \A i, j \in 1..Len(all_tweets) :
             i # j => all_tweets[i].id # all_tweets[j].id
       /\ since_date \in Days =>
             \A i \in 1..Len(all_tweets) :
                all_tweets[i].created_at = NoDate
                \/ all_tweets[i].created_at >= since_date
       /\ ~include_retweets =>
             \A i \in 1..Len(all_tweets) : ~all_tweets[i].is_retweet

\* the call returned a tweet after a last page that repeated it and also
\* carried a tweet older than since_date
C8_Witness ==
    /\ sweep_pc = "returned"
    /\ since_date \in Days
    /\ ~include_retweets
    /\ Len(all_tweets) = 1
    /\ page_log.n = 2
    /\ page_log.skipped_duplicate = 1
    /\ page_log.skipped_old = 1

\* the call returned a tweet after a page that also carried a retweet
C8_WitnessRetweet ==
    /\ sweep_pc = "returned"
    /\ ~include_retweets
    /\ Len(all_tweets) = 1
    /\ page_log.skipped_retweet = 1
    /\ page_log.added_count = 1

\* C9: get_user_tweets_all never holds more than limit tweets; every page
\* request asks for at most min(PageCap, limit - tweets collected so far)
\* items, and is issued only while fewer than limit tweets are collected.
C9_LimitRespected ==
    /\ Len(all_tweets) <= limit
    /\ page_log.n > 0 =>
          /\ page_log.have < limit
          /\ page_log.per_page <= PageCap
          /\ page_log.per_page <= limit - page_log.have

\* the second page was asked for the one tweet still missing; the page
\* carried more and the call returned exactly limit tweets
C9_Witness ==
    /\ sweep_pc = "returned"
    /\ limit = 2
    /\ Len(all_tweets) = 2
    /\ page_log.n = 2
    /\ page_log.have = 1
    /\ page_log.per_page = 1
    /\ page_log.raw = 2

\* the first page of a call with limit 3 was asked for PageCap tweets
C9_WitnessCap ==
    /\ limit = MaxLimit
    /\ page_log.n = 1
    /\ page_log.per_page = PageCap
    /\ page_log.per_page < limit - page_log.have

(***************************************************************************)
(* x_scraper: threads calling get_next and _record_failure on one client.  *)
(* Neither class takes a lock, so the threads interleave between the reads *)
(* and the writes of the shared attributes.                                *)
(***************************************************************************)
ThreadIds == 1..NumThreads

\* a thread outside any call
NewThread == [pc |-> "idle", k |-> 0, acc |-> NoAccount, tmp |-> 0,
              ret |-> NoAccount, hist |-> <<>>]

InitThreads ==
    /\ threads = [t \in ThreadIds |-> NewThread]
    /\ tally = [returned |-> [a \in AccountIds |-> 0], advances |-> 0,
                failures |-> 0]

\* thread t calls pool.get_next()
ThreadGetNext(t) ==
    /\ threads[t].pc = "idle"
    /\ Len(threads[t].hist) < MaxThreadOps
    /\ threads' = [threads EXCEPT ![t].pc = "gn_read", ![t].k = 0,
                                  ![t].acc = NoAccount, ![t].ret = NoAccount,
                                  ![t].hist = Append(@, "get_next")]
    /\ UNCHANGED <<tally, pipeVars, stageVars, llmVars, poolVars, clientVars, sweepVars>>

\* for _ in range(total): account = self.accounts[self._current_index];
\* after the loop: return None
GnReadAccount(t) ==
    /\ threads[t].pc = "gn_read"
    /\ threads' = IF threads[t].k < NumAccounts
                  THEN [threads EXCEPT ![t].acc = current_index,
                                       ![t].pc = "gn_load_index"]
                  ELSE [threads EXCEPT ![t].pc = "idle"]
    /\ UNCHANGED <<tally, pipeVars, stageVars, llmVars, poolVars, clientVars, sweepVars>>

\* self._current_index = (self._current_index + 1) % total: the read
GnLoadIndex(t) ==
    /\ threads[t].pc = "gn_load_index"
    /\ threads' = [threads EXCEPT ![t].tmp = current_index,
                                  ![t].pc = "gn_store_index"]
    /\ UNCHANGED <<tally, pipeVars, stageVars, llmVars, poolVars, clientVars, sweepVars>>

\* ... and the write
GnStoreIndex(t) ==
    /\ threads[t].pc = "gn_store_index"
    /\ current_index' = (threads[t].tmp + 1) % NumAccounts
    /\ tally' = [tally EXCEPT !.advances = @ + 1]
    /\ threads' = [threads EXCEPT ![t].pc = "gn_check"]
    /\ UNCHANGED <<accounts, now, pool_op, pipeVars, stageVars, llmVars, clientVars, sweepVars>>

\* if account.is_available
GnCheck(t) ==
    /\ threads[t].pc = "gn_check"
    /\ threads' = IF IsAvailable(accounts[threads[t].acc], now)
                  THEN [threads EXCEPT ![t].pc = "gn_load_count"]
                  ELSE [threads EXCEPT ![t].pc = "gn_read", ![t].k = @ + 1]
    /\ UNCHANGED <<tally, pipeVars, stageVars, llmVars, poolVars, clientVars, sweepVars>>

\* account.request_count += 1: the read
GnLoadCount(t) ==
    /\ threads[t].pc = "gn_load_count"
    /\ threads' = [threads EXCEPT ![t].tmp = accounts[threads[t].acc].request_count,
                                  ![t].pc = "gn_store_count"]
    /\ UNCHANGED <<tally, pipeVars, stageVars, llmVars, poolVars, clientVars, sweepVars>>

\* ... the write, and return account
GnStoreCount(t) ==
    /\ threads[t].pc = "gn_store_count"
    /\ accounts' = [accounts EXCEPT
                       ![threads[t].acc].request_count = threads[t].tmp + 1]
    /\ tally' = [tally EXCEPT !.returned[threads[t].acc] = @ + 1]
    /\ threads' = [threads EXCEPT ![t].pc = "idle", ![t].ret = threads[t].acc]
    /\ UNCHANGED <<current_index, now, pool_op, pipeVars, stageVars, llmVars, clientVars, sweepVars>>

\* thread t's request failed: it calls self._record_failure()
ThreadRecordFailure(t) ==
    /\ threads[t].pc = "idle"
    /\ Len(threads[t].hist) < MaxThreadOps
    /\ threads' = [threads EXCEPT ![t].pc = "rf_load",
                                  ![t].hist = Append(@, "record_failure")]
    /\ UNCHANGED <<tally, pipeVars, stageVars, llmVars, poolVars, clientVars, sweepVars>>

\* self._cb_consecutive_failures += 1: the read
RfLoad(t) ==
    /\ threads[t].pc = "rf_load"
    /\ threads' = [threads EXCEPT ![t].tmp = cb_failures, ![t].pc = "rf_store"]
    /\ UNCHANGED <<tally, pipeVars, stageVars, llmVars, poolVars, clientVars, sweepVars>>

\* ... and the write
RfStore(t) ==
    /\ threads[t].pc = "rf_store"
    /\ cb_failures' = threads[t].tmp + 1
    /\ tally' = [tally EXCEPT !.failures = @ + 1]
    /\ threads' = [threads EXCEPT ![t].pc = "rf_check"]
    /\ UNCHANGED <<max_retries, cb_threshold, cb_open_until, pc, attempt,
                   account, deadline, call_result, calls, call, pipeVars, stageVars, llmVars,
                   poolVars, sweepVars>>

\* if self._cb_consecutive_failures >= self._cb_threshold: open the breaker
RfCheck(t) ==
    /\ threads[t].pc = "rf_check"
    /\ cb_open_until' = IF cb_failures >= cb_threshold THEN now + cb_cooldown
                        ELSE cb_open_until
    /\ threads' = [threads EXCEPT ![t].pc = "idle"]
    /\ UNCHANGED <<max_retries, cb_threshold, cb_failures, pc, attempt,
                   account, deadline, call_result, calls, call, tally,
                   pipeVars, stageVars, llmVars, poolVars, sweepVars>>

NextThreads ==
    \E t \in ThreadIds :
       \/ ThreadGetNext(t)
       \/ GnReadAccount(t)
       \/ GnLoadIndex(t)
       \/ GnStoreIndex(t)
       \/ GnCheck(t)
       \/ GnLoadCount(t)
       \/ GnStoreCount(t)
       \/ ThreadRecordFailure(t)
       \/ RfLoad(t)
       \/ RfStore(t)
       \/ RfCheck(t)

(***************************************************************************)
(* Properties of the client under threads                                  *)
(***************************************************************************)
\* no thread is inside a call
Quiescent == \A t \in ThreadIds : threads[t].pc = "idle"

\* every successful get_next added exactly 1 to its credential's
\* request_count
CountsKept ==
    \A a \in AccountIds : accounts[a].request_count = tally.returned[a]

\* every slot consumed moved the rotation index by one
IndexKept == current_index = tally.advances % NumAccounts

\* two threads that each made one get_next did not get the same credential
SlotsDistinct ==
    \A t, u \in ThreadIds :
       (t # u /\ threads[t].hist = <<"get_next">>
              /\ threads[u].hist = <<"get_next">>)
           => threads[t].ret # threads[u].ret

\* every recorded failure added exactly 1 to the consecutive-failure counter
FailuresKept == cb_failures = tally.failures

\* C15: when several threads use the client concurrently, no update of its
\* shared state is lost: once the calls have returned, each credential's
\* request_count equals the number of get_next calls that returned it, the
\* rotation index has advanced once per slot taken and two concurrent
\* get_next calls over eligible credentials got different credentials, and
\* the breaker's counter equals the number of failures recorded.
C15_NoLostUpdate ==
    Quiescent => (CountsKept /\ IndexKept /\ SlotsDistinct /\ FailuresKept)

(***************************************************************************)
(* AccountPool.from_env_file                                               *)
(***************************************************************************)
\* keys of the lines of an env file
EnvKeys == {"TWITTER_AUTH_TOKEN", "TWITTER_AUTH_TOKEN_BACKUP", "TWITTER_CT0",
            "XCSRF_TOKEN"}

\* what follows the '=' of a line: a quoted value, a bare one, nothing
RawValues == {"\"a\"", "b", ""}

\* value.strip().strip('"').strip("'")
Unquote(raw) == IF raw = "\"a\"" THEN "a" ELSE raw

\* the lines of a file: KEY=value, or a comment (which the loop skips like
\* a blank line or a line without '=')
EnvLines == [kind : {"pair"}, key : EnvKeys, raw : RawValues]
               \cup {[kind |-> "comment", key |-> "TWITTER_CT0", raw |-> "b"]}

\* the files read: up to MaxLines lines, or no file at the path
NoFile == <<[kind |-> "missing", key |-> "", raw |-> ""]>>
EnvFiles == UNION {[1..n -> EnvLines] : n \in 0..MaxLines} \cup {NoFile}

\* what from_env_file has come to: still running, an exception raised, or
\* the pool of the one credential
EnvRunning == [st |-> "running", auth_token |-> "", ct0 |-> ""]
EnvRaises(e) == [st |-> e, auth_token |-> "", ct0 |-> ""]
EnvPool(auth_token, ct0) == [st |-> "pool", auth_token |-> auth_token, ct0 |-> ct0]

InitEnv ==
    /\ env_file \in EnvFiles
    /\ env_pos = 1
    /\ env_auth_token = ""
    /\ env_ct0 = ""
    /\ env_ret = EnvRunning

\* open(env_file_path) raises FileNotFoundError, which is raised again
EnvFileNotFound ==
    /\ env_ret = EnvRunning
    /\ env_file = NoFile
    /\ env_ret' = EnvRaises("FileNotFoundError")
    /\ UNCHANGED <<env_file, env_pos, env_auth_token, env_ct0, notEnvVars>>

\* one turn of 'for line in f': a line that is a pair with one of the three
\* keys assigns its value
EnvReadLine ==
    /\ env_ret = EnvRunning
    /\ env_file # NoFile
    /\ env_pos <= Len(env_file)
    /\ LET line == env_file[env_pos]
           value == Unquote(line.raw)
       IN /\ env_auth_token' =
                IF line.kind = "pair" /\ line.key = "TWITTER_AUTH_TOKEN"
                THEN value ELSE env_auth_token
          /\ env_ct0' =
                IF line.kind = "pair" /\ line.key \in {"TWITTER_CT0", "XCSRF_TOKEN"}
                THEN value ELSE env_ct0
    /\ env_pos' = env_pos + 1
    /\ UNCHANGED <<env_file, env_ret, notEnvVars>>

\* after the loop: ValueError without both values, else cls([(auth_token, ct0)])
EnvReturn ==
    /\ env_ret = EnvRunning
    /\ env_file # NoFile
    /\ env_pos > Len(env_file)
    /\ env_ret' = IF env_auth_token = "" \/ env_ct0 = ""
                  THEN EnvRaises("ValueError")
                  ELSE EnvPool(env_auth_token, env_ct0)
    /\ UNCHANGED <<env_file, env_pos, env_auth_token, env_ct0, notEnvVars>>

NextEnv ==
    \/ EnvFileNotFound
    \/ EnvReadLine
    \/ EnvReturn

(***************************************************************************)
(* Properties of from_env_file                                             *)
(***************************************************************************)
\* positions of the pair lines of the file with a key of the set
LinesWithKey(keys) ==
    {i \in 1..Len(env_file) : env_file[i].kind = "pair" /\ env_file[i].key \in keys}

SetMax(S) == CHOOSE x \in S : \A y \in S : y <= x

\* the value of the first line with a key of the set, "" without one
FirstValue(keys) ==
    IF LinesWithKey(keys) = {} THEN ""
    ELSE Unquote(env_file[SetMin(LinesWithKey(keys))].raw)

LastValue(keys) ==
    IF LinesWithKey(keys) = {} THEN ""
    ELSE Unquote(env_file[SetMax(LinesWithKey(keys))].raw)

\* C31: from_env_file uses only the lines whose key is exactly
\* TWITTER_AUTH_TOKEN, TWITTER_CT0 or XCSRF_TOKEN; the csrf token is the value
\* of the first TWITTER_CT0 / XCSRF_TOKEN line of the file; it fails when the
\* auth token or the csrf token is missing.
C31_ExactKeysFirstCsrf ==
    (env_ret # EnvRunning /\ env_file # NoFile) =>
        LET auth == LastValue({"TWITTER_AUTH_TOKEN"})
            csrf == FirstValue({"TWITTER_CT0", "XCSRF_TOKEN"})
        IN IF auth = "" \/ csrf = "" THEN env_ret = EnvRaises("ValueError")
           ELSE env_ret = EnvPool(auth, csrf)

\* the same with the csrf token of the last such line
C31_ExactKeysLastCsrf ==
    (env_ret # EnvRunning /\ env_file # NoFile) =>
        LET auth == LastValue({"TWITTER_AUTH_TOKEN"})
            csrf == LastValue({"TWITTER_CT0", "XCSRF_TOKEN"})
        IN IF auth = "" \/ csrf = "" THEN env_ret = EnvRaises("ValueError")
           ELSE env_ret = EnvPool(auth, csrf)

\* a file with a TWITTER_AUTH_TOKEN_BACKUP line before the wanted lines was
\* loaded with the value of the exact key
C31_WitnessBackupIgnored ==
    /\ env_file # NoFile /\ Len(env_file) = 3
    /\ env_file[1].kind = "pair" /\ env_file[1].key = "TWITTER_AUTH_TOKEN_BACKUP"
    /\ env_file[1].raw = "b"
    /\ env_ret = EnvPool("a", "a")

(***************************************************************************)
(* x_scraper: get_user_tweets_all against a server with more cursors       *)
(***************************************************************************)
\* the cursor-bottom values of a longer timeline
PagingCursors == Cursors \cup {"c3"}

\* a sweep that leaves retweets out, without a date filter or with one that
\* some tweets can fail, over dated tweets
InitPaging ==
    /\ InitSweep
    /\ since_date \in {NoDate, 2}
    /\ ~include_retweets
    /\ \A i \in TweetIds : timeline[i].created_at # NoDate

NextPaging ==
    \/ \E tweets \in Pages, next_cursor \in PagingCursors \cup {NoCursor} :
          SweepPage(tweets, next_cursor)
    \/ SweepReturn

(***************************************************************************)
(* Properties of the paging of a sweep                                     *)
(***************************************************************************)
\* C32: get_user_tweets_all terminates for every sequence of server
\* responses: the count of consecutive pages that added no tweet never
\* exceeds max_empty_add_pages, the paging has stopped when it reaches it, the
\* number of page requests is at most max_empty_add_pages * limit, and the
\* sweep returns.
C32_BoundedPages ==
    /\ [](/\ empty_add_pages <= max_empty_add_pages
          /\ empty_add_pages = max_empty_add_pages => sweep_pc = "returned"
          /\ page_log.n <= max_empty_add_pages * limit)
    /\ <>(sweep_pc = "returned")

\* three pages in a row added nothing and the sweep stopped there, at the
\* bound on the page requests
C32_Witness ==
    /\ sweep_pc = "returned"
    /\ empty_add_pages = max_empty_add_pages
    /\ page_log.n = max_empty_add_pages * limit
    /\ page_log.raw > 0

\* the page of the last request added nothing, met an already-seen id, and
\* had every tweet skipped as old, retweet or duplicate
PinnedDominated ==
    /\ page_log.raw > 0
    /\ page_log.added_count = 0
    /\ page_log.skipped_duplicate > 0
    /\ page_log.skipped_old + page_log.skipped_retweet
          + page_log.skipped_duplicate >= page_log.raw

C33_WitnessMixed ==
    /\ PinnedDominated
    /\ page_log.skipped_retweet > 0
    /\ page_log.skipped_duplicate < page_log.raw

\* C34: within one sweep no cursor value is sent in more than one page
\* request: the sweep goes on to another request only with a next_cursor that
\* is not empty, differs from the cursor just sent and was never returned
\* before, so the cursors sent after the first request are as many as the
\* requests and all distinct.
C34_NoCursorSentTwice ==
    /\ [](sweep_pc = "loop" =>
             /\ Cardinality(seen_cursors) = page_log.n
             /\ cursor = NoCursor <=> page_log.n = 0
             /\ cursor # NoCursor => cursor \in seen_cursors)
    /\ [][cursor' # cursor =>
             /\ cursor' \notin seen_cursors \cup {NoCursor}
             /\ seen_cursors' = seen_cursors \cup {cursor'}
             /\ page_log'.n = page_log.n + 1]_vars

\* four requests were made, with no cursor and with three distinct ones
C34_Witness ==
    /\ sweep_pc = "returned"
    /\ page_log.n = 4
    /\ seen_cursors = PagingCursors
    /\ cursor \in seen_cursors

(***************************************************************************)
(* x_scraper: a sweep whose page requests return a response or None        *)
(***************************************************************************)
\* response = self._request_with_retry(url, params): the call made for the
\* page request returns a response ("data") or None ("empty")
CallReturns(result) ==
    /\ CallPending
    /\ calls' = calls + 1
    /\ call_result' = result
    /\ UNCHANGED <<max_retries, cb_threshold, cb_failures, cb_open_until, pc,
                   attempt, account, deadline, call, poolVars, sweepVars,
                   pipeVars, stageVars, llmVars, threadVars>>

NextSweepResults ==
    \/ SweepCall
    \/ \E result \in {"data", "empty"} : CallReturns(result)
    \/ \E tweets \in Pages, next_cursor \in Cursors \cup {NoCursor},
          delay \in 0..MaxPageDelay :
          SweepAnswer(tweets, next_cursor, delay)
    \/ SweepReturn

(***************************************************************************)
(* Properties of an empty page                                             *)
(***************************************************************************)
\* C39: when a page request yields no tweets after parsing and reply
\* filtering, as it does when the request failed and the client returned the
\* empty result, pagination stops at once: the sweep returns the tweets
\* collected so far, the page's next cursor is not followed and no page
\* delay is slept.
C39_EmptyPageEndsSweep ==
    [][(CallReturned /\ sweep_pc' # "request") =>
          /\ call_result = "empty" => page_log'.raw = 0
          /\ page_log'.raw = 0 =>
                /\ sweep_pc' = "returned"
                /\ all_tweets' = all_tweets
                /\ cursor' = cursor
                /\ seen_cursors' = seen_cursors
                /\ empty_add_pages' = empty_add_pages
                /\ now' = now]_vars

\* the second page request failed: the tweet of the first page is returned
C39_Witness ==
    /\ sweep_pc = "returned"
    /\ call_result = "empty"
    /\ page_log.n = 2
    /\ page_log.raw = 0
    /\ Len(all_tweets) = 1
    /\ cursor # NoCursor

\* the second page request succeeded and its page held no tweet to keep
C39_WitnessFiltered ==
    /\ sweep_pc = "returned"
    /\ call_result = "data"
    /\ page_log.n = 2
    /\ page_log.raw = 0
    /\ Len(all_tweets) = 1
    /\ Len(all_tweets) < limit

(***************************************************************************)
(* x_scraper: AccountPool.wait_for_available, called on its own            *)
(***************************************************************************)
\* the longest single sleep of wait_for_available
WaitCap == 60

\* clock values near the start and around the longest single sleep
Times(k) == (0..k) \cup {WaitCap + i : i \in 0..k}

\* a credential of a pool in use: dead, or cooling until some time, or free
PoolStates ==
    {[NewAccount EXCEPT !.is_dead = TRUE]}
       \cup {[NewAccount EXCEPT !.cooldown_until = c] : c \in Times(MaxUntil)}

\* wait_for_available(timeout) is entered at time 0: deadline = now + timeout
InitWait ==
    /\ accounts \in [AccountIds -> PoolStates]
    /\ current_index \in AccountIds
    /\ now = 0
    /\ pool_op = [op |-> "init", ret |-> NoAccount, fresh |-> TRUE]
    /\ deadline \in Times(MaxUntil + 1)
    /\ pc = "wait"
    /\ account = NoAccount
    /\ max_retries = 1
    /\ cb_threshold = 1
    /\ cb_failures = 0
    /\ cb_open_until = 0
    /\ attempt = 0
    /\ call_result = "none"
    /\ calls = 0
    /\ call = [cur |-> NewCall, fails_since_ok |-> 0, opened_until |-> 0,
               last |-> "none"]

\* one pass of the while loop of wait_for_available, its sleep included; the
\* function returns account, NoAccount for None
WaitForAvailable ==
    /\ pc = "wait"
    /\ IF ~(now < deadline)
       THEN /\ pc' = "idle"
            /\ account' = NoAccount
            /\ UNCHANGED <<accounts, current_index, now>>
       ELSE \E r \in {GetNext(accounts, current_index, now)} :
               /\ current_index' = r.index
               /\ accounts' = r.accounts
               /\ account' = r.account
               /\ IF r.account # NoAccount \/ AllDead(accounts)
                  THEN pc' = "idle" /\ now' = now
                  ELSE \E w \in {WaitTime(accounts, now, deadline)} :
                          IF w <= 0
                          THEN pc' = "idle" /\ now' = now
                          ELSE pc' = "wait" /\ now' = now + w
    /\ UNCHANGED <<pool_op, max_retries, cb_threshold, cb_failures,
                   cb_open_until, attempt, deadline, call_result, calls, call,
                   pipeVars, stageVars, llmVars, threadVars, sweepVars>>

NextWait == WaitForAvailable

(***************************************************************************)
(* Properties of wait_for_available                                        *)
(***************************************************************************)
\* the credentials that are cooling and not dead
Cooling == {a \in AccountIds : ~accounts[a].is_dead
                               /\ accounts[a].cooldown_until > now}

\* the earliest cooldown_until among them
EarliestCooldown == SetMin({accounts[a].cooldown_until : a \in Cooling})

\* the credentials that are not dead and whose cooldown is over by time t
EligibleBy(t) == {a \in AccountIds : ~accounts[a].is_dead
                                     /\ accounts[a].cooldown_until <= t}

\* C35 as stated: wait_for_available always returns; a pass that sleeps
\* sleeps no longer than to the earliest cooldown_until plus 1 s; it returns an eligible
\* credential if one becomes eligible before the deadline, the empty result
\* no later than the deadline otherwise, and never an ineligible credential.
C35_WaitsUntilEarliestCooldown ==
    /\ [][pc = "wait" =>
             /\ now' # now => now' <= EarliestCooldown + 1
             /\ pc' = "idle" =>
                   /\ account' # NoAccount => account' \in EligibleBy(now)
                   /\ (\E a \in AccountIds : a \in EligibleBy(deadline - 1))
                         => account' # NoAccount
                   /\ account' = NoAccount => now' <= deadline]_vars
    /\ <>(pc = "idle")

\* C35, amended: wait_for_available always returns; a pass that sleeps sleeps
\* the time left to the earliest cooldown_until plus 1 s, cut to the time
\* left to the deadline and to WaitCap; it returns a credential when one is
\* eligible at entry and the timeout is positive, and when one's
\* cooldown_until plus 1 s lies before the deadline; a credential returned is
\* eligible then, and every result comes no later than the deadline.
C35_WaitsInCappedSleeps ==
    /\ [][pc = "wait" =>
             /\ now' # now =>
                   /\ now' - now = Min2(Min2(EarliestCooldown - now + 1,
                                             deadline - now), WaitCap)
                   /\ pc' = "wait"
             /\ pc' = "idle" =>
                   /\ account' # NoAccount =>
                         account' \in EligibleBy(now) /\ now < deadline
                   /\ (\/ 0 < deadline /\ EligibleBy(0) # {}
                       \/ EligibleBy(deadline - 2) # {})
                         => account' # NoAccount
                   /\ now' = now
                   /\ now <= deadline]_vars
    /\ <>(pc = "idle")

\* a credential that cooled for more than WaitCap was returned after two
\* sleeps
C35_Witness ==
    /\ pc = "idle"
    /\ account # NoAccount
    /\ now > WaitCap
    /\ accounts[account].cooldown_until = now - 1
    /\ accounts[account].request_count = 1

\* the empty result at the deadline, with a credential whose cooldown ended
\* one second before it
C35_WitnessLastSecond ==
    /\ pc = "idle"
    /\ account = NoAccount
    /\ now = deadline
    /\ EligibleBy(deadline - 1) # {}

(***************************************************************************)
(* x_scraper: XClient._make_request, from the HTTP response on             *)
(***************************************************************************)
\* the characters of the retry-after values taken
HeaderChars == {"0", "1", "-", " ", "G"}

DigitChars == {"0", "1", "2", "3", "4", "5", "6", "7", "8", "9"}

\* 'Thu, 01 Jan 2099': the start of an HTTP-date
HttpDate == <<"T", "h", "u", ",", " ", "0", "1", " ", "J", "a", "n", " ",
              "2", "0", "9", "9">>

\* response.headers.get("retry-after", ""): a missing header reads as ''
RetryAfterHeaders ==
    UNION {[1..n -> HeaderChars] : n \in 0..MaxHeaderLen} \cup {HttpDate}

RECURSIVE Strip(_)
\* str.strip() of blanks, which int() applies to its argument
Strip(s) ==
    IF s = <<>> THEN s
    ELSE IF Head(s) = " " THEN Strip(Tail(s))
    ELSE IF s[Len(s)] = " " THEN Strip(SubSeq(s, 1, Len(s) - 1))
    ELSE s

Digit(c) ==
    CASE c = "0" -> 0 [] c = "1" -> 1 [] c = "2" -> 2 [] c = "3" -> 3
      [] c = "4" -> 4 [] c = "5" -> 5 [] c = "6" -> 6 [] c = "7" -> 7
      [] c = "8" -> 8 [] c = "9" -> 9

RECURSIVE Decimal(_)
\* the number a string of digits denotes
Decimal(s) ==
    IF s = <<>> THEN 0
    ELSE 10 * Decimal(SubSeq(s, 1, Len(s) - 1)) + Digit(s[Len(s)])

IntAcceptsAnything(raw) == [ok |-> TRUE, val |-> 0]

\* int(raw) on a str: blanks around, an optional sign, then digits only;
\* ok = FALSE is ValueError
IntOf(raw) ==
    LET s == Strip(raw)
        signed == s # <<>> /\ Head(s) \in {"+", "-"}
        digits == IF signed THEN Tail(s) ELSE s
    IN  IF digits = <<>> \/ \E i \in 1..Len(digits) : digits[i] \notin DigitChars
        THEN [ok |-> FALSE, val |-> 0]
        ELSE [ok |-> TRUE,
              val |-> IF signed /\ Head(s) = "-" THEN 0 - Decimal(digits)
                      ELSE Decimal(digits)]

\* first.get("code") of an error without code (None)
NoCode == 0

\* the codes an error of a GraphQL answer carries: the rate-limit code, the
\* auth codes, another one, none
ErrorCodes == {88, 32, 64, 89, 130, NoCode}

\* the messages an error carries: '', 'Rate Limit', 'ratelimit',
\* 'Unauthorized', 'FORBIDDEN', 'Author', 'Bad id'
ErrorMessages ==
    {<<>>,
     <<"R", "a", "t", "e", " ", "L", "i", "m", "i", "t">>,
     <<"r", "a", "t", "e", "l", "i", "m", "i", "t">>,
     <<"U", "n", "a", "u", "t", "h", "o", "r", "i", "z", "e", "d">>,
     <<"F", "O", "R", "B", "I", "D", "D", "E", "N">>,
     <<"A", "u", "t", "h", "o", "r">>,
     <<"B", "a", "d", " ", "i", "d">>}

\* str.lower on one character of the messages
LowerChar(c) ==
    CASE c = "R" -> "r" [] c = "L" -> "l" [] c = "U" -> "u" [] c = "F" -> "f"
      [] c = "O" -> "o" [] c = "B" -> "b" [] c = "I" -> "i" [] c = "D" -> "d"
      [] c = "E" -> "e" [] c = "N" -> "n" [] c = "A" -> "a"
      [] OTHER -> c

\* error_text = f"{error_msg}".lower()
LowerText(msg) == [i \in 1..Len(msg) |-> LowerChar(msg[i])]

\* sub in text
In(sub, text) ==
    \E i \in 0..(Len(text) - Len(sub)) : SubSeq(text, i + 1, i + Len(sub)) = sub

rate_limit == <<"r", "a", "t", "e", " ", "l", "i", "m", "i", "t">>

\* ("unauthorized", "forbidden", "auth")
auth_words ==
    {<<"u", "n", "a", "u", "t", "h", "o", "r", "i", "z", "e", "d">>,
     <<"f", "o", "r", "b", "i", "d", "d", "e", "n">>,
     <<"a", "u", "t", "h">>}

\* an entry of errors: a dict with code and message, or something else
Errors ==
    [is_dict : {TRUE}, code : ErrorCodes, message : ErrorMessages]
       \cup {[is_dict |-> FALSE, code |-> NoCode, message |-> <<>>]}

\* data.get("errors"): no key, or a list
ErrorLists == UNION {[1..n -> Errors] : n \in 0..MaxErrors}

\* data.get("data"): no key, null, {} or an object with content
DataValues == {"absent", "null", "empty", "full"}

NoHeader == <<>>

NoBody == [json |-> FALSE, has_errors |-> FALSE, errors |-> <<>>,
           data |-> "absent"]

\* what requests.get gives _make_request: an exception, a response with a
\* status other than 200, or a 200 with a body
Responses ==
    {[raises |-> TRUE, status |-> 0, retry_after |-> NoHeader, body |-> NoBody]}
       \cup {[raises |-> FALSE, status |-> s, retry_after |-> h, body |-> NoBody] :
               s \in {429, 401, 403, 404, 500}, h \in RetryAfterHeaders}
       \cup {[raises |-> FALSE, status |-> 200, retry_after |-> NoHeader,
              body |-> NoBody]}
       \cup {[raises |-> FALSE, status |-> 200, retry_after |-> NoHeader,
              body |-> [json |-> TRUE, has_errors |-> he, errors |-> es,
                        data |-> dv]] :
               he \in BOOLEAN, es \in ErrorLists, dv \in DataValues}

\* not yet returned
NoResult == [kind |-> "-", retry_after |-> 0]

Returns == [kind |-> "data", retry_after |-> 0]

Raises(e) == [kind |-> e, retry_after |-> 0]

RateLimited(retry_after) == [kind |-> "RateLimitError", retry_after |-> retry_after]

GraphqlErrorIgnoresData(body) ==
    LET errors == IF body.has_errors THEN body.errors ELSE <<>>
    IN  IF errors # <<>>
        THEN LET first == errors[1]
                 error_code == IF first.is_dict THEN first.code ELSE NoCode
                 error_text == IF first.is_dict THEN LowerText(first.message)
                               ELSE <<>>
             IN  IF error_code = 88 \/ In(rate_limit, error_text)
                 THEN RateLimited(DefaultRetryAfter)
                 ELSE IF error_code \in {32, 64, 89}
                 THEN Raises("AuthError")
                 ELSE IF \E k \in auth_words : In(k, error_text)
                 THEN Raises("AuthError")
                 ELSE Raises("XClientError")
        ELSE Returns

\* status == 200: data = response.json(), then the check of GraphQL errors
GraphqlError(body) ==
    LET errors == IF body.has_errors THEN body.errors ELSE <<>>
    IN  IF errors # <<>> /\ body.data # "full"
        THEN LET first == errors[1]
                 error_code == IF first.is_dict THEN first.code ELSE NoCode
                 error_text == IF first.is_dict THEN LowerText(first.message)
                               ELSE <<>>
             IN  IF error_code = 88 \/ In(rate_limit, error_text)
                 THEN RateLimited(DefaultRetryAfter)
                 ELSE IF error_code \in {32, 64, 89}
                 THEN Raises("AuthError")
                 ELSE IF \E k \in auth_words : In(k, error_text)
                 THEN Raises("AuthError")
                 ELSE Raises("XClientError")
        ELSE Returns

\* _make_request from `status = response.status_code` on, and its except
\* clauses
MakeRequest(response) ==
    IF response.raises THEN Raises("XClientError")
    ELSE IF response.status = 200
    THEN IF ~response.body.json THEN Raises("XClientError")
         ELSE GraphqlError(response.body)
    ELSE IF response.status = 429
    THEN LET r == IntOf(response.retry_after)
         IN  IF r.ok THEN RateLimited(r.val) ELSE RateLimited(DefaultRetryAfter)
    ELSE IF response.status \in {401, 403}
    THEN Raises("AuthError")
    ELSE Raises("XClientError")

InitRequest ==
    /\ mr_response \in Responses
    /\ mr_result = NoResult

\* _make_request returns or raises
MakeRequestEnds ==
    /\ mr_result = NoResult
    /\ mr_result' = MakeRequest(mr_response)
    /\ UNCHANGED <<mr_response, notRequestVars>>

NextRequest == MakeRequestEnds

(***************************************************************************)
(* Properties of _make_request                                             *)
(***************************************************************************)
\* _make_request has returned or raised
Ended == mr_result # NoResult

\* the value is an integer in decimal: digits, after an optional sign, with
\* blanks around at most
IsInteger(v) ==
    \E a, b \in 0..Len(v) :
       /\ a + b < Len(v)
       /\ \A i \in 1..a : v[i] = " "
       /\ \A i \in (Len(v) - b + 1)..Len(v) : v[i] = " "
       /\ LET first == IF v[a + 1] \in {"+", "-"} THEN a + 2 ELSE a + 1
          IN  /\ first <= Len(v) - b
              /\ \A i \in first..(Len(v) - b) : v[i] \in DigitChars

\* C36: _make_request maps every outcome other than a 200 response to one
\* error class and never returns it: status 429 raises RateLimitError with
\* retry_after the integer value of the retry-after header, or 900 when the
\* header is absent, an HTTP-date or otherwise no integer; status 401 or 403
\* raises AuthError; any other status and any transport exception raise
\* XClientError.
C36_Non200Classified ==
    (Ended /\ (mr_response.raises \/ mr_response.status # 200)) =>
       /\ mr_result.kind \in {"RateLimitError", "AuthError", "XClientError"}
       /\ mr_result.kind = "RateLimitError" <=>
             ~mr_response.raises /\ mr_response.status = 429
       /\ mr_result.kind = "AuthError" <=>
             ~mr_response.raises /\ mr_response.status \in {401, 403}
       /\ mr_result.kind = "RateLimitError" =>
             /\ ~IsInteger(mr_response.retry_after)
                   => mr_result.retry_after = DefaultRetryAfter
             /\ IsInteger(mr_response.retry_after)
                   => mr_result.retry_after
                         = IntOf(mr_response.retry_after).val
             /\ mr_response.retry_after \in {NoHeader, HttpDate}
                   => mr_result.retry_after = DefaultRetryAfter
             /\ mr_response.retry_after = <<"1", "0">>
                   => mr_result.retry_after = 10

\* a 429 with retry-after: 10 was raised as RateLimitError(10)
C36_Witness ==
    /\ Ended
    /\ mr_response.status = 429
    /\ mr_response.retry_after = <<"1", "0">>
    /\ mr_result = RateLimited(10)

\* a 429 with an HTTP-date was raised as RateLimitError(900)
C36_WitnessHttpDate ==
    /\ Ended
    /\ mr_response.status = 429
    /\ mr_response.retry_after = HttpDate
    /\ mr_result = RateLimited(DefaultRetryAfter)

\* a transport exception was raised as XClientError
C36_WitnessTransport ==
    /\ Ended
    /\ mr_response.raises
    /\ mr_result = Raises("XClientError")

\* the first entry of errors, read as the code reads it
FirstError ==
    IF mr_response.body.errors[1].is_dict THEN mr_response.body.errors[1]
    ELSE [is_dict |-> FALSE, code |-> NoCode, message |-> <<>>]

\* a 200 response whose body carries errors
CarriesErrors ==
    /\ ~mr_response.raises
    /\ mr_response.status = 200
    /\ mr_response.body.json
    /\ mr_response.body.has_errors
    /\ mr_response.body.errors # <<>>

\* the classes the first error falls in
SaysRateLimit ==
    FirstError.code = 88 \/ In(rate_limit, LowerText(FirstError.message))

SaysAuth ==
    \/ FirstError.code \in {32, 64, 89}
    \/ \E k \in auth_words : In(k, LowerText(FirstError.message))

C37_WitnessPartial ==
    /\ Ended
    /\ CarriesErrors
    /\ mr_response.body.data = "full"
    /\ FirstError.code = 88
    /\ mr_result = Returns

\* code 64: AuthError; a message without a keyword and code 130: XClientError
C37_WitnessAuth ==
    /\ Ended
    /\ CarriesErrors
    /\ FirstError.code = 64
    /\ FirstError.message = <<"B", "a", "d", " ", "i", "d">>
    /\ mr_result = Raises("AuthError")

(***************************************************************************)
(* x_scraper: TweetParser.parse_timeline                                   *)
(***************************************************************************)
\* the id_str values of the tweets of a response
ResponseIds == {"t1", "t2"}

\* _parse_tweet_entry returned None: promoted, tombstone, or unparsable
NoTweet == ""

NoEntry == [kind |-> "other", id |-> NoTweet, value |-> "", items |-> <<>>]

\* the entries of a TimelineAddEntries instruction, by the prefix of their
\* entryId: tweet-, cursor-bottom- (with a value or an empty one),
\* profile-conversation- (a module of up to two tweets), anything else
Entries ==
    {[NoEntry EXCEPT !.kind = "tweet", !.id = i] : i \in ResponseIds \cup {NoTweet}}
       \cup {[NoEntry EXCEPT !.kind = "cursor", !.value = c] : c \in {"", "c1"}}
       \cup {[NoEntry EXCEPT !.kind = "module", !.items = m] :
               m \in {<<>>, <<"t1">>, <<"t1", "t2">>, <<"t1", "t1">>}}
       \cup {NoEntry}

EntryLists(n) == UNION {[1..k -> Entries] : k \in 0..n}

\* an instruction: TimelinePinEntry with its entry, TimelineAddEntries with
\* its entries, or another type
Instructions(n) ==
    {[type |-> "TimelinePinEntry", entry |-> e, entries |-> <<>>] :
        e \in {x \in Entries : x.kind = "tweet"}}
       \cup {[type |-> "TimelineAddEntries", entry |-> NoEntry, entries |-> es] :
               es \in EntryLists(n)}
       \cup {[type |-> "TimelineClearCache", entry |-> NoEntry, entries |-> <<>>]}

\* a pin entry, another type, or the one timeline entry tweet-t1
ShortInstructions ==
    {i \in Instructions(1) :
        i.type = "TimelineAddEntries" =>
           i.entries = <<[NoEntry EXCEPT !.kind = "tweet", !.id = "t1"]>>}

\* the instructions of a response: one instruction, or two of which one is
\* a short one
InstructionLists ==
    {<<>>} \cup {<<i>> : i \in Instructions(MaxEntries)}
           \cup {<<i, j>> : i \in ShortInstructions, j \in Instructions(MaxEntries)}
           \cup {<<i, j>> : i \in Instructions(MaxEntries), j \in ShortInstructions}

\* tweets = [], next_cursor = None, seen_ids = set()
NewParse == [tweets |-> <<>>, next_cursor |-> NoCursor, seen_ids |-> {}]

EmitAlways(st, id) ==
    IF id = NoTweet THEN st
    ELSE [st EXCEPT !.seen_ids = @ \cup {id}, !.tweets = Append(@, id)]

\* if tweet and tweet.id not in seen_ids: seen_ids.add; tweets.append
Emit(st, id) ==
    IF id # NoTweet /\ id \notin st.seen_ids
    THEN [st EXCEPT !.seen_ids = @ \cup {id}, !.tweets = Append(@, id)]
    ELSE st

RECURSIVE EmitModule(_, _, _)
\* for t in module_tweets, from the k-th on
EmitModule(st, items, k) ==
    IF k > Len(items) THEN st
    ELSE EmitModule(Emit(st, items[k]), items, k + 1)

\* one entry of TimelineAddEntries
ParseEntry(st, entry) ==
    CASE entry.kind = "tweet" -> Emit(st, entry.id)
      [] entry.kind = "cursor" ->
            IF entry.value # "" THEN [st EXCEPT !.next_cursor = entry.value]
            ELSE st
      [] entry.kind = "module" -> EmitModule(st, entry.items, 1)
      [] OTHER -> st

RECURSIVE ParseEntries(_, _, _)
ParseEntries(st, entries, k) ==
    IF k > Len(entries) THEN st
    ELSE ParseEntries(ParseEntry(st, entries[k]), entries, k + 1)

RECURSIVE ParseInstructions(_, _, _)
\* for instruction in instructions, from the k-th on
ParseInstructions(st, instructions, k) ==
    IF k > Len(instructions) THEN st
    ELSE LET instruction == instructions[k]
             st1 == CASE instruction.type = "TimelineAddEntries" ->
                            ParseEntries(st, instruction.entries, 1)
                      [] instruction.type = "TimelinePinEntry" ->
                            Emit(st, instruction.entry.id)
                      [] OTHER -> st
         IN  ParseInstructions(st1, instructions, k + 1)

\* parse_timeline: (tweets, next_cursor)
ParseTimeline(instructions) ==
    LET st == ParseInstructions(NewParse, instructions, 1)
    IN  [returned |-> TRUE, tweets |-> st.tweets, next_cursor |-> st.next_cursor]

NotParsed == [returned |-> FALSE, tweets |-> <<>>, next_cursor |-> NoCursor]

InitParse ==
    /\ pt_instructions \in InstructionLists
    /\ pt_result = NotParsed

ParseTimelineReturns ==
    /\ ~pt_result.returned
    /\ pt_result' = ParseTimeline(pt_instructions)
    /\ UNCHANGED <<pt_instructions, notParseVars>>

NextParse == ParseTimelineReturns

(***************************************************************************)
(* Properties of parse_timeline                                            *)
(***************************************************************************)
\* the ids of the tweets an instruction holds
IdsOf(instruction) ==
    IF instruction.type = "TimelinePinEntry" THEN {instruction.entry.id}
    ELSE UNION {{instruction.entries[k].id}
                   \cup {instruction.entries[k].items[m] :
                           m \in DOMAIN instruction.entries[k].items} :
                k \in DOMAIN instruction.entries}

\* the ids of the tweets the response holds
IdsIn == UNION {IdsOf(pt_instructions[k]) : k \in DOMAIN pt_instructions}
            \ {NoTweet}

\* how often the returned list has the id
Emitted(id) == Cardinality({k \in DOMAIN pt_result.tweets : pt_result.tweets[k] = id})

\* C38: parse_timeline emits each tweet id at most once per response,
\* whatever the order and mix of pin entry, timeline entries and module
\* entries: every id the response holds is in the returned list once, and no
\* other id is in it.
C38_EachIdOnce ==
    pt_result.returned =>
       \A id \in ResponseIds :
          Emitted(id) = IF id \in IdsIn THEN 1 ELSE 0

\* the pinned tweet is also a timeline entry, after the pin entry: once
C38_Witness ==
    /\ pt_result.returned
    /\ Len(pt_instructions) = 2
    /\ pt_instructions[1].type = "TimelinePinEntry"
    /\ pt_instructions[1].entry.id = "t1"
    /\ pt_instructions[2].type = "TimelineAddEntries"
    /\ \E k \in DOMAIN pt_instructions[2].entries :
          /\ pt_instructions[2].entries[k].kind = "tweet"
          /\ pt_instructions[2].entries[k].id = "t1"
    /\ pt_result.tweets = <<"t1", "t2">>

\* the pin entry comes after the timeline entries, one of them a module
\* that holds the pinned tweet
C38_WitnessPinLast ==
    /\ pt_result.returned
    /\ Len(pt_instructions) = 2
    /\ pt_instructions[2].type = "TimelinePinEntry"
    /\ pt_instructions[2].entry.id = "t1"
    /\ \E k \in DOMAIN pt_instructions[1].entries :
          /\ pt_instructions[1].entries[k].kind = "module"
          /\ pt_instructions[1].entries[k].items = <<"t1", "t2">>
    /\ Emitted("t1") = 1

(***************************************************************************)
(* Termination of NativePipeline.run                                       *)
(***************************************************************************)
\* the tasks in state st
TasksIn(st) == Cardinality({s \in Sources : tasks[s].st = st})

\* an upper bound on the steps the pipeline has left: the calls of run()
\* with the sentinels they put, the starts of the tasks, the posts not put
\* yet, and for every queued or held entry the gets, puts and
\* acknowledgements ahead of it
StepsLeft ==
    (Len(RunOrder) + 1 - runPc) * (10 * MaxWorkers + 1)
       + 10 * (MaxWorkers - stopSent)
       + 3 * TasksIn("new") + 2 * TasksIn("pending") + TasksIn("running")
       + 10 * (MaxPosts + 1 - nextId)
       + 9 * Len(fetch_queue.items)
       + 8 * Cardinality(enrichers.proc) + Cardinality(enrichers.ack)
       + 6 * Len(enrich_queue.items)
       + 5 * Cardinality(organizers.proc) + Cardinality(organizers.ack)
       + 3 * Len(organize_queue.items)
       + (CASE writer.st = "proc" -> 2 [] writer.st = "ack" -> 1 [] OTHER -> 0)

\* run() has returned with every worker gone and nothing left behind
CleanExit ==
    /\ enrichers = [NoWorkers EXCEPT !.exited = MaxWorkers]
    /\ organizers = [NoWorkers EXCEPT !.exited = MaxWorkers]
    /\ writer.st = "exit"
    /\ \A s \in Sources : tasks[s].st = "done"
    /\ \A n \in QueueNames :
          /\ QueueOf(n) = EmptyQueue
          /\ qstat[n].acks = qstat[n].puts
          /\ qstat[n].sentinels = IF n = "organize" THEN 1 ELSE MaxWorkers

\* C40: NativePipeline.run terminates without deadlock: every step brings
\* the pipeline closer to the end (StepsLeft falls and is never negative),
\* some thread can take a step until run() has returned, no queue is
\* acknowledged more often than put to, and when run() has returned every
\* Enrich, Organize and Write worker has consumed one sentinel and exited,
\* every entry put was acknowledged, and the three queues are empty.
C40_RunTerminates ==
    /\ [](/\ StepsLeft >= 0
          /\ RunDone \/ ENABLED NextPipe
          /\ fetch_queue.unfinished >= Len(fetch_queue.items)
          /\ enrich_queue.unfinished >= Len(enrich_queue.items)
          /\ organize_queue.unfinished >= Len(organize_queue.items)
          /\ RunDone => CleanExit)
    /\ [][StepsLeft' < StepsLeft]_vars

\* run() returned after MaxPosts posts went through the three stages
C40_Witness ==
    /\ RunDone
    /\ CleanExit
    /\ qstat["fetch"].puts = MaxPosts
    /\ writer.total_posts = MaxPosts

\* run() returned though nothing was fetched
C40_WitnessNoPosts ==
    /\ RunDone
    /\ CleanExit
    /\ qstat["fetch"].puts = 0

(***************************************************************************)
(* Specifications                                                          *)
(***************************************************************************)
PipeAtRest == InitPipe

EnrichAtRest == InitEnrich

WriteAtRest == InitWriter /\ feed = {}

\* a FetcherStage without sources
FetchAtRest ==
    /\ general = [pending |-> 0, fetching |-> 0,
                  putting |-> [k \in 1..MaxFeedPosts |-> 0],
                  done |-> 0, none |-> 0, failed |-> 0, puts |-> 0]
    /\ x_tasks = <<>>
    /\ x_delay = [min |-> 0, max |-> 0]
    /\ since_x = MaxDelay
    /\ fq = 0
    /\ fetch_joined = FALSE

\* from_env_file not called
EnvAtRest ==
    /\ env_file = <<>> /\ env_pos = 1 /\ env_auth_token = "" /\ env_ct0 = ""
    /\ env_ret = EnvRunning

RequestAtRest ==
    /\ mr_response = [raises |-> TRUE, status |-> 0, retry_after |-> NoHeader,
                      body |-> NoBody]
    /\ mr_result = NoResult


ParseAtRest ==
    /\ pt_instructions = <<>>
    /\ pt_result = NotParsed


StagesAtRest == EnrichAtRest /\ WriteAtRest /\ FetchAtRest /\ EnvAtRest /\ RequestAtRest /\ ParseAtRest

ThreadsAtRest == InitThreads

LlmAtRest == InitLlm

PoolAtRest == InitPool

ClientAtRest ==
    /\ max_retries = 1
    /\ cb_threshold = 1
    /\ cb_failures = 0
    /\ cb_open_until = 0
    /\ pc = "idle"
    /\ attempt = 0
    /\ account = NoAccount
    /\ deadline = 0
    /\ call_result = "none"
    /\ calls = 0
    /\ call = [cur |-> NewCall, fails_since_ok |-> 0, opened_until |-> 0,
               last |-> "none"]

SweepAtRest ==
    /\ timeline = [i \in TweetIds |-> [created_at |-> NoDate, is_retweet |-> FALSE]]
    /\ limit = 0
    /\ since_date = NoDate
    /\ include_retweets = FALSE
    /\ all_tweets = <<>>
    /\ cursor = NoCursor
    /\ seen_tweet_ids = {}
    /\ seen_cursors = {}
    /\ empty_add_pages = 0
    /\ sweep_pc = "returned"
    /\ page_log = NoPageLog

\* the pipeline of native_scout
PipeInit == InitPipe /\ PoolAtRest /\ ClientAtRest /\ SweepAtRest /\ ThreadsAtRest /\ LlmAtRest /\ StagesAtRest

SpecPipe == PipeInit /\ [][NextPipe]_vars

\* the credential pool under arbitrary calls
PoolInit == InitPool /\ PipeAtRest /\ ClientAtRest /\ SweepAtRest /\ ThreadsAtRest /\ LlmAtRest /\ StagesAtRest

SpecPool == PoolInit /\ [][NextPool]_vars

\* one XClient making calls over its pool
ClientInit == InitClient /\ InitPool /\ PipeAtRest /\ SweepAtRest /\ ThreadsAtRest /\ LlmAtRest /\ StagesAtRest

SpecClient == ClientInit /\ [][NextClient]_vars

\* one get_user_tweets_all call over arbitrary page responses
SweepInit == InitSweep /\ PipeAtRest /\ PoolAtRest /\ ClientAtRest /\ ThreadsAtRest /\ LlmAtRest /\ StagesAtRest

SpecSweep == SweepInit /\ [][NextSweep]_vars

\* one get_user_tweets_all call whose page requests are client calls
SweepCallsInit == InitSweepCalls /\ InitClient /\ InitPool /\ PipeAtRest /\ ThreadsAtRest /\ LlmAtRest /\ StagesAtRest

SpecSweepCalls == SweepCallsInit /\ [][NextSweepCalls]_vars

\* threads calling get_next and _record_failure on one client
ThreadsInit == InitThreads /\ InitPool /\ InitClient /\ PipeAtRest /\ SweepAtRest /\ LlmAtRest /\ StagesAtRest

SpecThreads == ThreadsInit /\ [][NextThreads]_vars

\* the pipeline with the LLM calls of the Organize stage spelled out
OrganizeInit == InitPipe /\ InitLlm /\ PoolAtRest /\ ClientAtRest /\ SweepAtRest /\ ThreadsAtRest /\ StagesAtRest

SpecOrganize == OrganizeInit /\ [][NextOrganize]_vars

\* the Enrich stage between a producer on Q1 and a consumer on Q2
EnrichInit == InitEnrich /\ WriteAtRest /\ FetchAtRest /\ EnvAtRest /\ RequestAtRest /\ ParseAtRest /\ PipeAtRest /\ PoolAtRest /\ ClientAtRest /\ SweepAtRest /\ ThreadsAtRest /\ LlmAtRest

SpecEnrich == EnrichInit /\ [][NextEnrich]_vars

\* the writer thread given the results of WriterFeed
WriterInit == InitWriter /\ feed = WriterFeed /\ EnrichAtRest /\ FetchAtRest /\ EnvAtRest /\ RequestAtRest /\ ParseAtRest /\ PipeAtRest /\ PoolAtRest /\ ClientAtRest /\ SweepAtRest /\ ThreadsAtRest /\ LlmAtRest

SpecWriter == WriterInit /\ [][NextWriter]_vars

\* the Fetch stage with its two pools and a consumer of Q1
FetchInit == InitFetch(RssSources, [min : Delays, max : Delays]) /\ EnrichAtRest /\ WriteAtRest /\ EnvAtRest /\ RequestAtRest /\ ParseAtRest /\ PipeAtRest /\ PoolAtRest /\ ClientAtRest /\ SweepAtRest /\ ThreadsAtRest /\ LlmAtRest

SpecFetch == FetchInit /\ [][NextFetch]_vars

\* pool workers take pending tasks, time passes, blocking calls return and
\* the Enrich workers keep taking entries off Q1
FetchFairness ==
    /\ WF_vars(GeneralTaskStarts)
    /\ WF_vars(\E outcome \in FeedOutcomes, n \in 1..MaxFeedPosts : GeneralFetchReturns(outcome, n))
    /\ WF_vars(\E k \in 1..MaxFeedPosts : GeneralPut(k))
    /\ WF_vars(\E i \in DOMAIN x_tasks : XTaskStarts(i))
    /\ WF_vars(FetchTick)
    /\ WF_vars(\E i \in DOMAIN x_tasks : XSleepEnds(i))
    /\ WF_vars(\E i \in DOMAIN x_tasks, outcome \in FeedOutcomes, n \in 1..MaxFeedPosts : XFetchReturns(i, outcome, n))
    /\ WF_vars(\E i \in DOMAIN x_tasks : XPut(i))
    /\ WF_vars(FetchQueueGet)
    /\ WF_vars(FetchJoinReturns)

\* a mixed batch under the fallback delays
FetchMixedInit == InitFetch(MixedSources, FallbackDelays) /\ EnrichAtRest /\ WriteAtRest /\ EnvAtRest /\ RequestAtRest /\ ParseAtRest /\ PipeAtRest /\ PoolAtRest /\ ClientAtRest /\ SweepAtRest /\ ThreadsAtRest /\ LlmAtRest

SpecFetchFair == FetchMixedInit /\ [][NextFetch]_vars /\ FetchFairness

\* from_env_file on every file of up to MaxLines lines
EnvInit == InitEnv /\ EnrichAtRest /\ WriteAtRest /\ FetchAtRest /\ RequestAtRest /\ ParseAtRest /\ PipeAtRest /\ PoolAtRest /\ ClientAtRest /\ SweepAtRest /\ ThreadsAtRest /\ LlmAtRest

SpecEnv == EnvInit /\ [][NextEnv]_vars

PagingInit == InitPaging /\ PipeAtRest /\ PoolAtRest /\ ClientAtRest /\ ThreadsAtRest /\ LlmAtRest /\ StagesAtRest

\* every page request returns and the loop goes on from it
SpecPaging == PagingInit /\ [][NextPaging]_vars /\ WF_vars(NextPaging)

\* wait_for_available on every small pool, for timeouts around its cooldowns
WaitInit == InitWait /\ PipeAtRest /\ SweepAtRest /\ ThreadsAtRest /\ LlmAtRest /\ StagesAtRest

\* the sleep of a pass ends
SpecWait == WaitInit /\ [][NextWait]_vars /\ WF_vars(NextWait)

\* _make_request on every response of the model
RequestInit == InitRequest /\ EnrichAtRest /\ WriteAtRest /\ FetchAtRest /\ EnvAtRest /\ ParseAtRest /\ PipeAtRest /\ PoolAtRest /\ ClientAtRest /\ SweepAtRest /\ ThreadsAtRest /\ LlmAtRest

SpecRequest == RequestInit /\ [][NextRequest]_vars

\* parse_timeline on every response of the model
ParseInit == InitParse /\ EnrichAtRest /\ WriteAtRest /\ FetchAtRest /\ EnvAtRest /\ RequestAtRest /\ PipeAtRest /\ PoolAtRest /\ ClientAtRest /\ SweepAtRest /\ ThreadsAtRest /\ LlmAtRest

SpecParse == ParseInit /\ [][NextParse]_vars

SweepResultsInit == InitSweepCalls /\ ClientAtRest /\ PoolAtRest /\ PipeAtRest /\ ThreadsAtRest /\ LlmAtRest /\ StagesAtRest

SpecSweepResults == SweepResultsInit /\ [][NextSweepResults]_vars

====
